---- MODULE Spec2Model ----
(***************************************************************************)
(* A model of the attribute layer of go-libsecret: the Attributes container *)
(* over a native GHashTable (attributes.go), the variadic builders and the  *)
(* schema validator, and the Schema handle (schema.go).  Go strings are     *)
(* sequences of one-character strings, so that formatting and the           *)
(* per-character checks are computed, not assumed.                          *)
(***************************************************************************)
EXTENDS Integers, Sequences, FiniteSets, TLC

VARIABLES tables, objs, nschemas, schemas, nvalues, valueObjs, builders,
          input, call

vars ==
  <<tables, objs, nschemas, schemas, nvalues, valueObjs, builders, input, call>>

\* The heap of Value handles and the AttributeBuilder objects.
valueVars == <<nvalues, valueObjs, builders>>

(***************************************************************************)
(* Bounds of the model.                                                     *)
(***************************************************************************)
MaxObjs == 1
MaxSchemas == 1
MaxArgs == 3
MaxStrLen == 3
MaxClones == 1
MaxValues == 1
MaxRefs == 1
MaxBuilders == 1

(***************************************************************************)
(* Strings.                                                                 *)
(***************************************************************************)
DigitChars == <<"0", "1", "2", "3", "4", "5", "6", "7", "8", "9">>

IsDigit(c) == \E i \in 1..Len(DigitChars) : DigitChars[i] = c

StrTrue == <<"t", "r", "u", "e">>
StrFalse == <<"f", "a", "l", "s", "e">>
StrYes == <<"y", "e", "s">>
StrJohn == <<"j", "o", "h", "n">>
Str8080 == <<"8", "0", "8", "0">>

KeyA == <<"a">>
KeyB == <<"b">>
KeyUsername == <<"u", "s", "e", "r">>
KeyPort == <<"p", "o", "r", "t">>
KeySsl == <<"s", "s", "l">>

\* All strings over the alphabet A of length at most n.
RECURSIVE StringsUpTo(_, _)
StringsUpTo(A, n) ==
  IF n = 0 THEN {<<>>}
  ELSE LET shorter == StringsUpTo(A, n - 1)
       IN  shorter \cup {Append(s, c) : s \in shorter, c \in A}

(***************************************************************************)
(* Go values of type interface{}.  t is the dynamic type; s, n and b hold   *)
(* the value of a string, an integer and a bool.                            *)
(***************************************************************************)
SignedTypes == {"int", "int8", "int16", "int32", "int64"}
UnsignedTypes == {"uint", "uint8", "uint16", "uint32", "uint64"}

GoString(s) == [t |-> "string", s |-> s, n |-> 0, b |-> FALSE]
GoInt(ty, n) == [t |-> ty, s |-> <<>>, n |-> n, b |-> FALSE]
GoBool(b) == [t |-> "bool", s |-> <<>>, n |-> 0, b |-> b]
GoNil == [t |-> "nil", s |-> <<>>, n |-> 0, b |-> FALSE]
GoFloat == [t |-> "float64", s |-> <<>>, n |-> 0, b |-> FALSE]

\* fmt.Sprintf("%d", v) of a native integer: base 10, most significant digit
\* first, a '-' before the digits of a negative number.
RECURSIVE FormatNat(_)
FormatNat(n) ==
  IF n < 10 THEN <<DigitChars[n + 1]>>
  ELSE Append(FormatNat(n \div 10), DigitChars[(n % 10) + 1])

\* Formatting that loses the sign.
SprintfDUnsigned(n) == IF n < 0 THEN FormatNat(0 - n) ELSE FormatNat(n)

SprintfD(n) == IF n < 0 THEN <<"-">> \o FormatNat(0 - n) ELSE FormatNat(n)

(***************************************************************************)
(* Schema attribute types and the per-value check of the validator.         *)
(***************************************************************************)
SchemaAttributeString == "STRING"
SchemaAttributeInteger == "INTEGER"
SchemaAttributeBoolean == "BOOLEAN"
SchemaAttributeTypes ==
  {SchemaAttributeString, SchemaAttributeInteger, SchemaAttributeBoolean}

\* The Integer case: the loop over the runes of value.
IntegerCheck(value) ==
  /\ value # <<>>
  /\ value # <<"-">>
  /\ \A i \in 1..Len(value) : IsDigit(value[i]) \/ value[i] = "-"

BooleanCheck(value) == value = StrTrue \/ value = StrFalse

validateAttributeValue(value, attrType) ==
  CASE attrType = SchemaAttributeString -> TRUE
    [] attrType = SchemaAttributeInteger -> IntegerCheck(value)
    [] attrType = SchemaAttributeBoolean -> BooleanCheck(value)
    [] OTHER -> FALSE

(***************************************************************************)
(* Go maps with string keys, as TLA+ functions over a finite set of keys.   *)
(***************************************************************************)
EmptyMap == [k \in {} |-> <<>>]

MapPut(m, key, value) ==
  [k \in DOMAIN m \cup {key} |-> IF k = key THEN value ELSE m[k]]

MapRemove(m, key) == [k \in DOMAIN m \ {key} |-> m[k]]

\* The orders in which a range loop may enumerate the keys of a map.
Orders(keys) ==
  {o \in [1..Cardinality(keys) -> keys] :
     \A i, j \in 1..Cardinality(keys) : o[i] = o[j] => i = j}

(***************************************************************************)
(* The Attributes container.  A heap H holds the native hash tables and the *)
(* Go objects that point to them; cAttributes = 0 is the nil pointer.       *)
(* unrefs counts the g_hash_table_unref calls made on a table.              *)
(***************************************************************************)
NewAttributes(H) ==
  [heap |->
     [tables |-> Append(H.tables, [content |-> EmptyMap, unrefs |-> 0]),
      objs |-> Append(H.objs, [cAttributes |-> Len(H.tables) + 1,
                               reachable |-> TRUE,
                               finalized |-> FALSE])],
   ret |-> Len(H.objs) + 1]

\* set that takes any key.
setAnyKey(H, a, key, value) ==
  LET c == H.objs[a].cAttributes IN
  IF c = 0 THEN [heap |-> H, err |-> "NotInitialized"]
  ELSE [heap |-> [H EXCEPT !.tables[c].content = MapPut(@, key, value)],
        err |-> "nil"]

\* set that looks at the key before it looks at the container.
setKeyFirst(H, a, key, value) ==
  LET c == H.objs[a].cAttributes IN
  IF key = <<>> THEN [heap |-> H, err |-> "InvalidKey"]
  ELSE IF c = 0 THEN [heap |-> H, err |-> "NotInitialized"]
  ELSE [heap |-> [H EXCEPT !.tables[c].content = MapPut(@, key, value)],
        err |-> "nil"]

set(H, a, key, value) ==
  LET c == H.objs[a].cAttributes IN
  IF c = 0 THEN [heap |-> H, err |-> "NotInitialized"]
  ELSE IF key = <<>> THEN [heap |-> H, err |-> "InvalidKey"]
  ELSE [heap |-> [H EXCEPT !.tables[c].content = MapPut(@, key, value)],
        err |-> "nil"]

Set(H, a, key, value) == set(H, a, key, value)

Get(H, a, key) ==
  LET c == H.objs[a].cAttributes IN
  IF c = 0 THEN <<>>
  ELSE IF key \notin DOMAIN H.tables[c].content THEN <<>>
  ELSE H.tables[c].content[key]

Has(H, a, key) ==
  LET c == H.objs[a].cAttributes IN
  IF c = 0 THEN FALSE ELSE key \in DOMAIN H.tables[c].content

Delete(H, a, key) ==
  LET c == H.objs[a].cAttributes IN
  IF c = 0 THEN [heap |-> H, ret |-> FALSE]
  ELSE [heap |-> [H EXCEPT !.tables[c].content = MapRemove(@, key)],
        ret |-> key \in DOMAIN H.tables[c].content]

AttrLen(H, a) ==
  LET c == H.objs[a].cAttributes IN
  IF c = 0 THEN 0 ELSE Cardinality(DOMAIN H.tables[c].content)

\* ToMap returns a nil map for a released container.
ToMap(H, a) ==
  LET c == H.objs[a].cAttributes IN
  IF c = 0 THEN [isNil |-> TRUE, m |-> EmptyMap]
  ELSE [isNil |-> FALSE, m |-> H.tables[c].content]

\* free that forgets the native unref.
freeNoUnref(H, a) == [H EXCEPT !.objs[a].cAttributes = 0]

\* free that releases the table and keeps the pointer to it.
freeKeepPointer(H, a) ==
  LET c == H.objs[a].cAttributes IN
  IF c = 0 THEN H ELSE [H EXCEPT !.tables[c].unrefs = @ + 1]

free(H, a) ==
  LET c == H.objs[a].cAttributes IN
  IF c = 0 THEN H
  ELSE [H EXCEPT !.tables[c].unrefs = @ + 1, !.objs[a].cAttributes = 0]

Free(H, a) == free(H, a)

\* A handle the caller no longer holds: only the finalizer can reach it.
Unreachable(H, a) == [H EXCEPT !.objs[a].reachable = FALSE]

\* Keys returns a nil slice for a released container; the slice of a live one
\* is modelled by the set of its elements.
Keys(H, a) ==
  LET c == H.objs[a].cAttributes IN
  IF c = 0 THEN [isNil |-> TRUE, keys |-> {}]
  ELSE [isNil |-> FALSE, keys |-> DOMAIN H.tables[c].content]

IsEmpty(H, a) == AttrLen(H, a) = 0

\* Equals that does not compare the sizes.
EqualsNoLen(H, a, other) ==
  IF a = 0 \/ other = 0 THEN a = other
  ELSE \A key \in Keys(H, a).keys :
         Has(H, other, key) /\ Get(H, a, key) = Get(H, other, key)

\* a = 0 and other = 0 are the nil *Attributes.
Equals(H, a, other) ==
  IF a = 0 \/ other = 0 THEN a = other
  ELSE IF AttrLen(H, a) # AttrLen(H, other) THEN FALSE
  ELSE \A key \in Keys(H, a).keys :
         Has(H, other, key) /\ Get(H, a, key) = Get(H, other, key)

\* Attributes.Validate.  native is the verdict of the library call
\* secret_attributes_validate, which is made only on a live container and a
\* live schema.
Validate(H, S, a, s, native) ==
  IF H.objs[a].cAttributes = 0 THEN "NotInitialized"
  ELSE IF s = 0 \/ S.schemas[s].cSchema = 0 THEN "NilSchema"
  ELSE IF ~native THEN "ValidationFailed"
  ELSE "nil"

\* A Clone that hands out a second handle on the same native table.
CloneShared(H, a) ==
  IF H.objs[a].cAttributes = 0 THEN [heap |-> H, ret |-> 0, err |-> "NotInitialized"]
  ELSE [heap |-> [H EXCEPT !.objs = Append(@, [cAttributes |-> H.objs[a].cAttributes,
                                               reachable |-> TRUE,
                                               finalized |-> FALSE])],
        ret |-> Len(H.objs) + 1,
        err |-> "nil"]

\* Clone inserts a copy of every key and value into a new container.
Clone(H, a) ==
  LET c == H.objs[a].cAttributes IN
  IF c = 0 THEN [heap |-> H, ret |-> 0, err |-> "NotInitialized"]
  ELSE LET n == NewAttributes(H)
           t == n.heap.objs[n.ret].cAttributes
       IN  [heap |-> [n.heap EXCEPT !.tables[t].content = H.tables[c].content],
            ret |-> n.ret,
            err |-> "nil"]

(***************************************************************************)
(* The Schema handle.  A schema heap S holds the native SecretSchema        *)
(* structures and the Go objects that point to them; cSchema = 0 is nil.    *)
(***************************************************************************)
MaxSchemaAttributes == 32
SchemaFlagsNone == 0

\* NewSchema that counts the attributes before it looks at the name, and
\* takes 32 for too many.
NewSchemaCountFirst(S, name, flags, attributes) ==
  IF Cardinality(DOMAIN attributes) = 0
    THEN [sheap |-> S, ret |-> 0, err |-> "EmptyAttributeSet"]
  ELSE IF Cardinality(DOMAIN attributes) >= MaxSchemaAttributes
    THEN [sheap |-> S, ret |-> 0, err |-> "TooManyAttributes"]
  ELSE IF name = <<>> THEN [sheap |-> S, ret |-> 0, err |-> "EmptyName"]
  ELSE [sheap |-> S, ret |-> 0, err |-> "CreateFailed"]

NewSchema(S, name, flags, attributes) ==
  IF name = <<>> THEN [sheap |-> S, ret |-> 0, err |-> "EmptyName"]
  ELSE IF Cardinality(DOMAIN attributes) = 0
    THEN [sheap |-> S, ret |-> 0, err |-> "EmptyAttributeSet"]
  ELSE IF Cardinality(DOMAIN attributes) > MaxSchemaAttributes
    THEN [sheap |-> S, ret |-> 0, err |-> "TooManyAttributes"]
  ELSE [sheap |->
          [nschemas |-> Append(S.nschemas, [name |-> name,
                                            flags |-> flags,
                                            attributes |-> attributes,
                                            refs |-> 1,
                                            static |-> FALSE]),
           schemas |-> Append(S.schemas, [cSchema |-> Len(S.nschemas) + 1,
                                          borrowed |-> FALSE,
                                          finalizer |-> TRUE,
                                          reachable |-> TRUE,
                                          finalized |-> FALSE])],
        ret |-> Len(S.schemas) + 1,
        err |-> "nil"]

\* Schema.Attributes: a nil map for a released handle.
SchemaAttributes(S, s) ==
  LET c == S.schemas[s].cSchema IN
  IF c = 0 THEN [isNil |-> TRUE, m |-> EmptyMap]
  ELSE [isNil |-> FALSE, m |-> S.nschemas[c].attributes]

\* Schema.Name and Schema.Flags.
Name(S, s) ==
  LET c == S.schemas[s].cSchema IN
  IF c = 0 THEN <<>> ELSE S.nschemas[c].name

Flags(S, s) ==
  LET c == S.schemas[s].cSchema IN
  IF c = 0 THEN SchemaFlagsNone ELSE S.nschemas[c].flags

IsBorrowed(S, s) == S.schemas[s].borrowed

\* secret_schema_ref adds a reference to an allocated schema; of a static
\* one it allocates a copy, which Schema.Ref does not keep.
NativeSchemaRef(S, c) ==
  IF S.nschemas[c].static
  THEN [S EXCEPT !.nschemas = Append(@, [S.nschemas[c] EXCEPT !.refs = 1,
                                                              !.static = FALSE])]
  ELSE [S EXCEPT !.nschemas[c].refs = @ + 1]

\* Schema.Ref returns the receiver, or nil (0).
SchemaRef(S, s) ==
  LET c == S.schemas[s].cSchema IN
  IF c = 0 THEN [sheap |-> S, ret |-> 0]
  ELSE [sheap |-> NativeSchemaRef(S, c), ret |-> s]

\* Unref that does not look at borrowed.
UnrefBorrowedToo(S, s) ==
  LET c == S.schemas[s].cSchema IN
  IF c # 0
  THEN [S EXCEPT !.nschemas[c].refs = @ - 1, !.schemas[s].cSchema = 0]
  ELSE S

\* Unref that keeps the pointer to the native schema.
UnrefKeepPointer(S, s) ==
  LET c == S.schemas[s].cSchema IN
  IF c # 0 /\ ~S.schemas[s].borrowed
  THEN [S EXCEPT !.nschemas[c].refs = @ - 1]
  ELSE S

Unref(S, s) ==
  LET c == S.schemas[s].cSchema IN
  IF c # 0 /\ ~S.schemas[s].borrowed
  THEN [S EXCEPT !.nschemas[c].refs = @ - 1, !.schemas[s].cSchema = 0]
  ELSE S

\* The finalizer of an owned Schema.
SchemaFree(S, s) == [Unref(S, s) EXCEPT !.schemas[s].cSchema = 0]

\* The predefined schemas of the library: static structures.
SchemaTypeNote == "NOTE"
SchemaTypeCompatNetwork == "COMPAT_NETWORK"

NoteName == <<"N", "o", "t", "e">>
CompatNetworkName == <<"N", "e", "t", "w", "o", "r", "k", "P", "a", "s", "s", "w", "o", "r", "d">>

CompatNetworkAttributes ==
  [k \in {<<"u", "s", "e", "r">>,
          <<"d", "o", "m", "a", "i", "n">>,
          <<"o", "b", "j", "e", "c", "t">>,
          <<"p", "r", "o", "t", "o", "c", "o", "l">>,
          <<"p", "o", "r", "t">>,
          <<"s", "e", "r", "v", "e", "r">>,
          <<"a", "u", "t", "h", "t", "y", "p", "e">>} |->
     IF k = <<"p", "o", "r", "t">> THEN SchemaAttributeInteger ELSE SchemaAttributeString]

PredefinedSchema(schemaType) ==
  IF schemaType = SchemaTypeNote
  THEN [name |-> NoteName, flags |-> SchemaFlagsNone,
        attributes |-> [k \in {} |-> SchemaAttributeString],
        refs |-> 0, static |-> TRUE]
  ELSE [name |-> CompatNetworkName, flags |-> SchemaFlagsNone,
        attributes |-> CompatNetworkAttributes,
        refs |-> 0, static |-> TRUE]

\* secret_get_schema: the address of the static structure, the same at every
\* call, or NULL for a type the library does not know.  The structure enters
\* the schema heap when it is first handed out.
StaticAt(S, schemaType) ==
  {c \in 1..Len(S.nschemas) :
     S.nschemas[c].static /\ S.nschemas[c].name = PredefinedSchema(schemaType).name}

GetSchema(S, schemaType) ==
  IF schemaType \notin {SchemaTypeNote, SchemaTypeCompatNetwork}
  THEN [sheap |-> S, ret |-> 0]
  ELSE LET known == StaticAt(S, schemaType)
           N == IF known = {} THEN Append(S.nschemas, PredefinedSchema(schemaType))
                ELSE S.nschemas
           c == IF known = {} THEN Len(S.nschemas) + 1 ELSE CHOOSE k \in known : TRUE
       IN  [sheap |-> [nschemas |-> N,
                       schemas |-> Append(S.schemas, [cSchema |-> c,
                                                      borrowed |-> TRUE,
                                                      finalizer |-> FALSE,
                                                      reachable |-> TRUE,
                                                      finalized |-> FALSE])],
            ret |-> Len(S.schemas) + 1]

SchemaNote(S) == GetSchema(S, SchemaTypeNote)

SchemaCompatNetwork(S) == GetSchema(S, SchemaTypeCompatNetwork)

(***************************************************************************)
(* Schema validation.  order is the order in which the range loop over      *)
(* a.ToMap() happens to enumerate the keys.                                 *)
(***************************************************************************)
RECURSIVE CheckEachAttribute(_, _, _, _)
CheckEachAttribute(m, schemaAttrs, order, i) ==
  IF i > Len(order) THEN "nil"
  ELSE LET key == order[i] IN
       IF key \in DOMAIN schemaAttrs
       THEN IF ~validateAttributeValue(m[key], schemaAttrs[key])
            THEN "InvalidAttributeValue"
            ELSE CheckEachAttribute(m, schemaAttrs, order, i + 1)
       ELSE "UndeclaredAttribute"

\* The loop that checks that all schema attributes are present.
CheckAllPresent(H, a, schemaAttrs) ==
  IF \E schemaKey \in DOMAIN schemaAttrs : ~Has(H, a, schemaKey)
  THEN "MissingRequiredAttribute"
  ELSE "nil"

validateAgainstSchema(H, S, a, s, order) ==
  IF s = 0 \/ S.schemas[s].cSchema = 0 THEN "nil"
  ELSE LET schemaAttrs == SchemaAttributes(S, s).m
           first == CheckEachAttribute(ToMap(H, a).m, schemaAttrs, order, 1)
       IN  IF first # "nil" THEN first
           ELSE CheckAllPresent(H, a, schemaAttrs)

\* a = 0 is the nil *Attributes, s = 0 the nil *Schema.
ValidateAttributesAgainstSchema(H, S, s, a, order) ==
  IF s = 0 THEN "NilSchema"
  ELSE IF a = 0 THEN "NilAttributes"
  ELSE validateAgainstSchema(H, S, a, s, order)

(***************************************************************************)
(* BuildAttributes and BuildAttributesV.  A failing call frees the          *)
(* container it allocated and returns nil (ret = 0): the freed object is    *)
(* then reachable by the finalizer only.                                    *)
(***************************************************************************)
IsNil(v) == v.t = "nil"

\* The type switch without its nil case.
ValueStringNilUnsupported(v) ==
  CASE v.t = "string" -> [ok |-> TRUE, s |-> v.s]
    [] v.t \in SignedTypes -> [ok |-> TRUE, s |-> SprintfD(v.n)]
    [] v.t \in UnsignedTypes -> [ok |-> TRUE, s |-> SprintfD(v.n)]
    [] v.t = "bool" -> [ok |-> TRUE, s |-> IF v.b THEN StrTrue ELSE StrFalse]
    [] OTHER -> [ok |-> FALSE, s |-> <<>>]

\* The type switch on a value-position argument.
ValueString(v) ==
  CASE v.t = "string" -> [ok |-> TRUE, s |-> v.s]
    [] v.t \in SignedTypes -> [ok |-> TRUE, s |-> SprintfD(v.n)]
    [] v.t \in UnsignedTypes -> [ok |-> TRUE, s |-> SprintfD(v.n)]
    [] v.t = "bool" -> [ok |-> TRUE, s |-> IF v.b THEN StrTrue ELSE StrFalse]
    [] v.t = "nil" -> [ok |-> TRUE, s |-> <<>>]
    [] OTHER -> [ok |-> FALSE, s |-> <<>>]

\* The error return of the loop: attrs.free(); return nil, err.
FailBuild(H, attrs, err) ==
  [heap |-> Unreachable(free(H, attrs), attrs), ret |-> 0, err |-> err]

RECURSIVE BuildLoop(_, _, _, _)
BuildLoop(H, attrs, effectiveArgs, i) ==
  IF i > Len(effectiveArgs) THEN [heap |-> H, ret |-> attrs, err |-> "nil"]
  ELSE IF IsNil(effectiveArgs[i])
    THEN [heap |-> H, ret |-> attrs, err |-> "nil"]
  ELSE IF effectiveArgs[i].t # "string"
    THEN FailBuild(H, attrs, "KeyTypeMismatch")
  ELSE IF i + 1 > Len(effectiveArgs)
    THEN FailBuild(H, attrs, "MissingValue")
  ELSE LET key == effectiveArgs[i].s
           value == ValueString(effectiveArgs[i + 1])
       IN  IF ~value.ok THEN FailBuild(H, attrs, "UnsupportedType")
           ELSE LET r == Set(H, attrs, key, value.s)
                IN  IF r.err # "nil" THEN FailBuild(r.heap, attrs, r.err)
                    ELSE BuildLoop(r.heap, attrs, effectiveArgs, i + 2)

\* Stripping the last argument whether or not it is the terminator.
EffectiveArgsAlwaysStrip(args) ==
  IF Len(args) > 0 THEN SubSeq(args, 1, Len(args) - 1) ELSE args

\* Never stripping the terminator.
EffectiveArgsNeverStrip(args) == args

EffectiveArgs(args) ==
  IF Len(args) > 0 /\ IsNil(args[Len(args)])
  THEN SubSeq(args, 1, Len(args) - 1)
  ELSE args

BuildAttributes(H, args) ==
  IF Len(args) = 0 THEN [heap |-> H, ret |-> 0, err |-> "EmptyInput"]
  ELSE IF Len(args) = 1 /\ IsNil(args[1])
    THEN LET n == NewAttributes(H)
         IN  [heap |-> n.heap, ret |-> n.ret, err |-> "nil"]
  ELSE IF Len(EffectiveArgs(args)) % 2 # 0
    THEN [heap |-> H, ret |-> 0, err |-> "OddArgumentCount"]
  ELSE LET n == NewAttributes(H)
       IN  BuildLoop(n.heap, n.ret, EffectiveArgs(args), 1)

\* BuildAttributesV that hands the container back although validation failed
\* and the container was freed.
BuildAttributesVDangling(H, S, s, args, order) ==
  IF s = 0 THEN [heap |-> H, ret |-> 0, err |-> "NilSchema"]
  ELSE LET b == BuildAttributes(H, args)
       IN  IF b.err # "nil" THEN [heap |-> b.heap, ret |-> 0, err |-> b.err]
           ELSE IF S.schemas[s].cSchema # 0
             THEN LET verr == validateAgainstSchema(b.heap, S, b.ret, s, order)
                  IN  [heap |-> IF verr # "nil" THEN free(b.heap, b.ret)
                                ELSE b.heap,
                       ret |-> b.ret,
                       err |-> verr]
           ELSE b

BuildAttributesV(H, S, s, args, order) ==
  IF s = 0 THEN [heap |-> H, ret |-> 0, err |-> "NilSchema"]
  ELSE LET b == BuildAttributes(H, args)
       IN  IF b.err # "nil" THEN [heap |-> b.heap, ret |-> 0, err |-> b.err]
           ELSE IF S.schemas[s].cSchema # 0
             THEN LET verr == validateAgainstSchema(b.heap, S, b.ret, s, order)
                  IN  IF verr # "nil"
                      THEN [heap |-> Unreachable(free(b.heap, b.ret), b.ret),
                            ret |-> 0,
                            err |-> verr]
                      ELSE b
           ELSE b

(***************************************************************************)
(* AttributesFromMap.  order is the order in which the range loop           *)
(* enumerates the keys of values.                                           *)
(***************************************************************************)
\* The loop without the skip of empty values.
RECURSIVE FromMapLoopKeepEmpty(_, _, _, _, _)
FromMapLoopKeepEmpty(H, attrs, values, order, i) ==
  IF i > Len(order) THEN [heap |-> H, ret |-> attrs, err |-> "nil"]
  ELSE LET key == order[i]
           value == values[key]
       IN  IF key = <<>> THEN FailBuild(H, attrs, "InvalidKey")
           ELSE LET r == set(H, attrs, key, value)
                IN  IF r.err # "nil" THEN FailBuild(r.heap, attrs, r.err)
                    ELSE FromMapLoopKeepEmpty(r.heap, attrs, values, order,
                                              i + 1)

RECURSIVE FromMapLoop(_, _, _, _, _)
FromMapLoop(H, attrs, values, order, i) ==
  IF i > Len(order) THEN [heap |-> H, ret |-> attrs, err |-> "nil"]
  ELSE LET key == order[i]
           value == values[key]
       IN  IF key = <<>> THEN FailBuild(H, attrs, "InvalidKey")
           ELSE IF value = <<>>
             THEN FromMapLoop(H, attrs, values, order, i + 1)
           ELSE LET r == set(H, attrs, key, value)
                IN  IF r.err # "nil" THEN FailBuild(r.heap, attrs, r.err)
                    ELSE FromMapLoop(r.heap, attrs, values, order, i + 1)

AttributesFromMap(H, values, order) ==
  IF Cardinality(DOMAIN values) = 0
  THEN [heap |-> H, ret |-> 0, err |-> "EmptyInput"]
  ELSE LET n == NewAttributes(H)
       IN  FromMapLoop(n.heap, n.ret, values, order, 1)

(***************************************************************************)
(* The Value handle.  A value heap V holds the native SecretValue           *)
(* structures and the Go objects that point to them; cValue = 0 is nil.     *)
(* refs is the native reference count, taken the number of                  *)
(* secret_value_ref calls made, freed tells that the count reached zero and *)
(* the structure was released, and uaf that it was used after that.         *)
(***************************************************************************)
TextPlain == <<"t", "e", "x", "t", "/", "p", "l", "a", "i", "n">>
OctetStream == <<"b", "i", "n">>
NoContentType == <<>>

\* What a read of released memory may yield besides the old content.
Garbage == <<"?">>

\* secret_value_new copies cLength bytes and needs a content type.
NewValue(V, secret, length, contentType) ==
  IF secret = <<>> THEN [vheap |-> V, ret |-> 0, err |-> "EmptySecret"]
  ELSE IF contentType = NoContentType
    THEN [vheap |-> V, ret |-> 0, err |-> "CreateFailed"]
  ELSE [vheap |->
          [nvalues |-> Append(V.nvalues,
                              [secret |-> IF length < 0 THEN secret
                                          ELSE SubSeq(secret, 1, length),
                               contentType |-> contentType,
                               refs |-> 1,
                               taken |-> 0,
                               freed |-> FALSE,
                               uaf |-> FALSE]),
           valueObjs |-> Append(V.valueObjs, [cValue |-> Len(V.nvalues) + 1,
                                              reachable |-> TRUE,
                                              finalized |-> FALSE])],
        ret |-> Len(V.valueObjs) + 1,
        err |-> "nil"]

NewValueFromBytes(V, data, contentType) ==
  IF Len(data) = 0 THEN [vheap |-> V, ret |-> 0, err |-> "EmptySecret"]
  ELSE NewValue(V, data, Len(data), contentType)

\* A use of the native structure c: a use of a released one is recorded.
Touch(V, c) ==
  IF V.nvalues[c].freed THEN [V EXCEPT !.nvalues[c].uaf = TRUE] ELSE V

\* What a read of field f of the native structure c may yield.
ReadOf(V, c, f) ==
  IF V.nvalues[c].freed THEN {f, Garbage} ELSE {f}

\* Value.Get; read is the content the native call yields.
ValueGet(V, v, read) ==
  LET c == V.valueObjs[v].cValue IN
  IF c = 0 THEN [vheap |-> V, data |-> <<>>, n |-> 0, err |-> "NilValue"]
  ELSE [vheap |-> Touch(V, c), data |-> read, n |-> Len(read), err |-> "nil"]

\* secret_value_get_text yields NULL for a content type that is not text.
GetText(V, v, read) ==
  LET c == V.valueObjs[v].cValue IN
  IF c = 0 THEN [vheap |-> V, s |-> <<>>, err |-> "NilValue"]
  ELSE IF V.nvalues[c].contentType # TextPlain
    THEN [vheap |-> Touch(V, c), s |-> <<>>, err |-> "NotText"]
  ELSE [vheap |-> Touch(V, c), s |-> read, err |-> "nil"]

GetContentType(V, v) ==
  LET c == V.valueObjs[v].cValue IN
  IF c = 0 THEN [vheap |-> V, s |-> <<>>, err |-> "NilValue"]
  ELSE [vheap |-> Touch(V, c), s |-> V.nvalues[c].contentType, err |-> "nil"]

ValueLen(V, v, read) ==
  LET c == V.valueObjs[v].cValue IN
  IF c = 0 THEN [vheap |-> V, n |-> 0]
  ELSE [vheap |-> Touch(V, c), n |-> Len(read)]

\* secret_value_ref and secret_value_unref on the native structure c.  On a
\* released structure the decrement writes to memory that is no longer the
\* value's: it may or may not show in the count.
NativeRef(V, c) ==
  [Touch(V, c) EXCEPT !.nvalues[c].refs = @ + 1, !.nvalues[c].taken = @ + 1]

NativeUnref(V, c, shows) ==
  IF V.nvalues[c].freed
  THEN [Touch(V, c) EXCEPT !.nvalues[c].refs = IF shows THEN @ - 1 ELSE @]
  ELSE [V EXCEPT !.nvalues[c].refs = @ - 1,
                 !.nvalues[c].freed = V.nvalues[c].refs = 1]

\* Value.Ref returns the receiver, or nil (0).
ValueRef(V, v) ==
  LET c == V.valueObjs[v].cValue IN
  IF c = 0 THEN [vheap |-> V, ret |-> 0]
  ELSE [vheap |-> NativeRef(V, c), ret |-> v]

\* Value.Unref leaves cValue as it is.
ValueUnref(V, v, shows) ==
  LET c == V.valueObjs[v].cValue IN
  IF c # 0 THEN NativeUnref(V, c, shows) ELSE V

\* ToPassword without the reset of cValue.
ToPasswordKeepPointer(V, v, read, shows) ==
  LET c == V.valueObjs[v].cValue IN
  IF c = 0 THEN [vheap |-> V, s |-> <<>>]
  ELSE [vheap |-> NativeUnref(V, c, shows), s |-> read]

\* secret_value_unref_to_password drops one reference and hands out the
\* secret; the handle forgets the native value.
ToPassword(V, v, read, shows) ==
  LET c == V.valueObjs[v].cValue IN
  IF c = 0 THEN [vheap |-> V, s |-> <<>>]
  ELSE [vheap |-> [NativeUnref(V, c, shows) EXCEPT !.valueObjs[v].cValue = 0],
        s |-> read]

\* The finalizer of a Value.
ValueFree(V, v, shows) ==
  [ValueUnref(V, v, shows) EXCEPT !.valueObjs[v].cValue = 0]

(***************************************************************************)
(* The password functions.  The secret service is outside the program: out  *)
(* is what the native call yields, an error, nothing, or a result, and svc  *)
(* is the sequence of native calls made, with the pointers and strings      *)
(* handed over.                                                             *)
(***************************************************************************)
CollectionDefault == <<"d", "e", "f", "a", "u", "l", "t">>
SearchFlagsNone == 0

NoService == <<>>

\* The native pointer of a schema handle; a nil handle gives NULL.
CSchemaOf(S, s) == IF s = 0 THEN 0 ELSE S.schemas[s].cSchema

\* One native call and the answer it got.
Invoke(fn, cSchema, cAttributes, collection, label, password, cValue, out) ==
  <<[fn |-> fn, cSchema |-> cSchema, cAttributes |-> cAttributes,
     collection |-> collection, label |-> label, password |-> password,
     cValue |-> cValue, answer |-> out]>>

\* PasswordLookupSync that wants a schema.
PasswordLookupSyncNeedsSchema(H, S, s, a, out) ==
  IF a = 0 \/ H.objs[a].cAttributes = 0
  THEN [password |-> <<>>, err |-> "NilAttributes", svc |-> NoService]
  ELSE [password |-> <<>>, err |-> "NilSchema", svc |-> NoService]

\* a = 0 is the nil *Attributes and s = 0 the nil *Schema.
PasswordLookupSync(H, S, s, a, out) ==
  IF a = 0 \/ H.objs[a].cAttributes = 0
  THEN [password |-> <<>>, err |-> "NilAttributes", svc |-> NoService]
  ELSE LET svc == Invoke("secret_password_lookupv_sync", CSchemaOf(S, s),
                         H.objs[a].cAttributes, <<>>, <<>>, <<>>, 0, out)
       IN  IF out.kind = "error"
           THEN [password |-> <<>>, err |-> "ExternalOperationFailed",
                 svc |-> svc]
           ELSE IF out.kind = "none"
             THEN [password |-> <<>>, err |-> "nil", svc |-> svc]
           ELSE [password |-> out.secret, err |-> "nil", svc |-> svc]

PasswordStoreSync(H, S, s, a, collection, label, password, out) ==
  IF a = 0 \/ H.objs[a].cAttributes = 0
  THEN [err |-> "NilAttributes", svc |-> NoService]
  ELSE IF label = <<>> THEN [err |-> "EmptyLabel", svc |-> NoService]
  ELSE IF password = <<>> THEN [err |-> "EmptyPassword", svc |-> NoService]
  ELSE LET svc == Invoke("secret_password_storev_sync", CSchemaOf(S, s),
                         H.objs[a].cAttributes, collection, label, password, 0,
                         out)
       IN  IF out.kind = "error"
           THEN [err |-> "ExternalOperationFailed", svc |-> svc]
           ELSE IF out.kind = "none"
             THEN [err |-> "StoreFailed", svc |-> svc]
           ELSE [err |-> "nil", svc |-> svc]

\* v = 0 is the nil *Value; the native call reads the value it is handed.
PasswordStoreBinarySync(H, S, V, s, a, collection, label, v, out) ==
  IF a = 0 \/ H.objs[a].cAttributes = 0
  THEN [vheap |-> V, err |-> "NilAttributes", svc |-> NoService]
  ELSE IF label = <<>>
    THEN [vheap |-> V, err |-> "EmptyLabel", svc |-> NoService]
  ELSE IF v = 0 \/ V.valueObjs[v].cValue = 0
    THEN [vheap |-> V, err |-> "NilValue", svc |-> NoService]
  ELSE LET c == V.valueObjs[v].cValue
           svc == Invoke("secret_password_storev_binary_sync", CSchemaOf(S, s),
                         H.objs[a].cAttributes, collection, label, <<>>, c,
                         out)
       IN  IF out.kind = "error"
           THEN [vheap |-> Touch(V, c), err |-> "ExternalOperationFailed",
                 svc |-> svc]
           ELSE IF out.kind = "none"
             THEN [vheap |-> Touch(V, c), err |-> "StoreFailed", svc |-> svc]
           ELSE [vheap |-> Touch(V, c), err |-> "nil", svc |-> svc]

\* results is the number of SearchResult objects returned; each holds its own
\* reference to an item of the service.
PasswordSearchSync(H, S, s, a, flags, out) ==
  IF a = 0 \/ H.objs[a].cAttributes = 0
  THEN [results |-> 0, err |-> "NilAttributes", svc |-> NoService]
  ELSE LET svc == Invoke("secret_password_searchv_sync", CSchemaOf(S, s),
                         H.objs[a].cAttributes, <<>>, <<>>, <<>>, 0, out)
       IN  IF out.kind = "error"
           THEN [results |-> 0, err |-> "ExternalOperationFailed", svc |-> svc]
           ELSE IF out.kind = "none"
             THEN [results |-> 0, err |-> "nil", svc |-> svc]
           ELSE [results |-> 1, err |-> "nil", svc |-> svc]

\* The deferred call left out.
DeferNothing(H, attrs) == Unreachable(H, attrs)

\* The deferred attrs.Free() of the map functions; the temporary container
\* is a local of the call.
DeferFree(H, attrs) == Unreachable(Free(H, attrs), attrs)

LookupPassword(H, S, s, attributeMap, order, out) ==
  IF Cardinality(DOMAIN attributeMap) = 0
  THEN [heap |-> H, password |-> <<>>, err |-> "EmptyInput", svc |-> NoService]
  ELSE LET m == AttributesFromMap(H, attributeMap, order)
       IN  IF m.err # "nil"
           THEN [heap |-> m.heap, password |-> <<>>, err |-> m.err,
                 svc |-> NoService]
           ELSE LET r == PasswordLookupSync(m.heap, S, s, m.ret, out)
                IN  [heap |-> DeferFree(m.heap, m.ret),
                     password |-> r.password, err |-> r.err, svc |-> r.svc]

StorePassword(H, S, s, attributeMap, order, collection, label, password, out) ==
  IF Cardinality(DOMAIN attributeMap) = 0
  THEN [heap |-> H, err |-> "EmptyInput", svc |-> NoService]
  ELSE LET m == AttributesFromMap(H, attributeMap, order)
       IN  IF m.err # "nil"
           THEN [heap |-> m.heap, err |-> m.err, svc |-> NoService]
           ELSE LET r == PasswordStoreSync(m.heap, S, s, m.ret, collection,
                                           label, password, out)
                IN  [heap |-> DeferFree(m.heap, m.ret), err |-> r.err,
                     svc |-> r.svc]

StoreBinarySecret(H, S, V, s, attributeMap, order, collection, label, v, out) ==
  IF Cardinality(DOMAIN attributeMap) = 0
  THEN [heap |-> H, vheap |-> V, err |-> "EmptyInput", svc |-> NoService]
  ELSE LET m == AttributesFromMap(H, attributeMap, order)
       IN  IF m.err # "nil"
           THEN [heap |-> m.heap, vheap |-> V, err |-> m.err,
                 svc |-> NoService]
           ELSE LET r == PasswordStoreBinarySync(m.heap, S, V, s, m.ret,
                                                 collection, label, v, out)
                IN  [heap |-> DeferFree(m.heap, m.ret), vheap |-> r.vheap,
                     err |-> r.err, svc |-> r.svc]

SearchPasswords(H, S, s, attributeMap, order, flags, out) ==
  IF Cardinality(DOMAIN attributeMap) = 0
  THEN [heap |-> H, results |-> 0, err |-> "EmptyInput", svc |-> NoService]
  ELSE LET m == AttributesFromMap(H, attributeMap, order)
       IN  IF m.err # "nil"
           THEN [heap |-> m.heap, results |-> 0, err |-> m.err,
                 svc |-> NoService]
           ELSE LET r == PasswordSearchSync(m.heap, S, s, m.ret, flags, out)
                IN  [heap |-> DeferFree(m.heap, m.ret), results |-> r.results,
                     err |-> r.err, svc |-> r.svc]

(***************************************************************************)
(* The AttributeBuilder.  B is the sequence of builder objects; attrs = 0   *)
(* is the nil *Attributes of a builder that was built or freed.             *)
(***************************************************************************)
NewAttributeBuilder(H, B) ==
  LET n == NewAttributes(H)
  IN  [heap |-> n.heap, builders |-> Append(B, [attrs |-> n.ret]),
       ret |-> Len(B) + 1]

\* The With methods drop the error of Set.
WithString(H, B, b, key, value) ==
  IF B[b].attrs # 0 THEN Set(H, B[b].attrs, key, value).heap ELSE H

WithInteger(H, B, b, key, value) ==
  IF B[b].attrs # 0 THEN Set(H, B[b].attrs, key, SprintfD(value)).heap ELSE H

WithBoolean(H, B, b, key, value) ==
  IF B[b].attrs # 0
  THEN Set(H, B[b].attrs, key, IF value THEN StrTrue ELSE StrFalse).heap
  ELSE H

\* Build that leaves the container with the builder as well.
BuildKeepAttrs(H, B, b) ==
  [heap |-> H, builders |-> B, ret |-> B[b].attrs, err |-> "nil"]

Build(H, B, b) ==
  [heap |-> H, builders |-> [B EXCEPT ![b].attrs = 0], ret |-> B[b].attrs,
   err |-> "nil"]

\* The container a builder frees was never handed out.
BuilderFree(H, B, b) ==
  IF B[b].attrs # 0
  THEN [heap |-> Unreachable(free(H, B[b].attrs), B[b].attrs),
        builders |-> [B EXCEPT ![b].attrs = 0]]
  ELSE [heap |-> H, builders |-> B]

(***************************************************************************)
(* The normalization helpers.                                               *)
(***************************************************************************)
StrTRUE == <<"T", "R", "U", "E">>
StrTitleTrue == <<"T", "r", "u", "e">>
StrFALSE == <<"F", "A", "L", "S", "E">>
StrTitleFalse == <<"F", "a", "l", "s", "e">>

\* v == 0 where v is the interface{} value of a type switch case that lists
\* several types: the constant 0 takes its default type int, and two
\* interface values are equal only if their dynamic types are identical.
InterfaceEqualsZero(v) == v.t = "int" /\ v.n = 0

\* The switch on a string that knows the lower-case literals only.
NormalizeBooleanAttributeLowerOnly(v) ==
  CASE v.t = "string" ->
         IF v.s \in {StrTrue, <<"1">>}
           THEN [s |-> StrTrue, err |-> "nil"]
         ELSE IF v.s \in {StrFalse, <<"0">>}
           THEN [s |-> StrFalse, err |-> "nil"]
         ELSE [s |-> <<>>, err |-> "InvalidBooleanLiteral"]
    [] v.t = "bool" ->
         [s |-> IF v.b THEN StrTrue ELSE StrFalse, err |-> "nil"]
    [] v.t \in SignedTypes ->
         [s |-> IF InterfaceEqualsZero(v) THEN StrFalse ELSE StrTrue,
          err |-> "nil"]
    [] v.t \in UnsignedTypes ->
         [s |-> IF InterfaceEqualsZero(v) THEN StrFalse ELSE StrTrue,
          err |-> "nil"]
    [] OTHER -> [s |-> <<>>, err |-> "UnsupportedType"]

\* The switch on a string that hands a known spelling back as it came.
NormalizeBooleanAttributeKeepSpelling(v) ==
  CASE v.t = "string" ->
         IF v.s \in {StrTrue, StrTRUE, StrTitleTrue, <<"1">>,
                     StrFalse, StrFALSE, StrTitleFalse, <<"0">>}
           THEN [s |-> v.s, err |-> "nil"]
         ELSE [s |-> <<>>, err |-> "InvalidBooleanLiteral"]
    [] v.t = "bool" ->
         [s |-> IF v.b THEN StrTrue ELSE StrFalse, err |-> "nil"]
    [] v.t \in SignedTypes \cup UnsignedTypes ->
         [s |-> IF InterfaceEqualsZero(v) THEN StrFalse ELSE StrTrue,
          err |-> "nil"]
    [] OTHER -> [s |-> <<>>, err |-> "UnsupportedType"]

NormalizeBooleanAttribute(v) ==
  CASE v.t = "string" ->
         IF v.s \in {StrTrue, StrTRUE, StrTitleTrue, <<"1">>}
           THEN [s |-> StrTrue, err |-> "nil"]
         ELSE IF v.s \in {StrFalse, StrFALSE, StrTitleFalse, <<"0">>}
           THEN [s |-> StrFalse, err |-> "nil"]
         ELSE [s |-> <<>>, err |-> "InvalidBooleanLiteral"]
    [] v.t = "bool" ->
         [s |-> IF v.b THEN StrTrue ELSE StrFalse, err |-> "nil"]
    [] v.t \in SignedTypes ->
         [s |-> IF InterfaceEqualsZero(v) THEN StrFalse ELSE StrTrue,
          err |-> "nil"]
    [] v.t \in UnsignedTypes ->
         [s |-> IF InterfaceEqualsZero(v) THEN StrFalse ELSE StrTrue,
          err |-> "nil"]
    [] OTHER -> [s |-> <<>>, err |-> "UnsupportedType"]

\* fmt.Sscanf(v, "%d", new(int)): the scan skips leading spaces, accepts one
\* sign, then reads the longest run of digits and underscores, which must not
\* be empty, and hands sign and run to strconv.ParseInt in base 10, which
\* rejects an underscore.  What follows the run is not read.  (The tokens of
\* this model are too short to overflow an int.)
RECURSIVE SkipSpace(_)
SkipSpace(str) ==
  IF str # <<>> /\ Head(str) = " " THEN SkipSpace(Tail(str)) ELSE str

RECURSIVE ScanNumber(_)
ScanNumber(str) ==
  IF str # <<>> /\ (IsDigit(Head(str)) \/ Head(str) = "_")
  THEN <<Head(str)>> \o ScanNumber(Tail(str))
  ELSE <<>>

SscanfD(str) ==
  LET unspaced == SkipSpace(str)
      signed == unspaced # <<>> /\ Head(unspaced) \in {"+", "-"}
      tok == ScanNumber(IF signed THEN Tail(unspaced) ELSE unspaced)
  IN  /\ unspaced # <<>>
      /\ tok # <<>>
      /\ \A i \in 1..Len(tok) : tok[i] # "_"

NormalizeIntegerAttribute(v) ==
  CASE v.t = "string" ->
         IF v.s = <<>> THEN [s |-> <<>>, err |-> "InvalidIntegerLiteral"]
         ELSE IF ~SscanfD(v.s)
           THEN [s |-> <<>>, err |-> "InvalidIntegerLiteral"]
         ELSE [s |-> v.s, err |-> "nil"]
    [] v.t \in SignedTypes -> [s |-> SprintfD(v.n), err |-> "nil"]
    [] v.t \in UnsignedTypes -> [s |-> SprintfD(v.n), err |-> "nil"]
    [] OTHER -> [s |-> <<>>, err |-> "UnsupportedType"]

(***************************************************************************)
(* The state.  tables and objs are the heap of Attributes containers,       *)
(* nschemas and schemas the heap of Schema handles.  input holds the        *)
(* arguments the caller passes: the variadic argument list, the map given   *)
(* to AttributesFromMap, the attribute map given to NewSchema and the       *)
(* key/value pairs given to Set.  call records the last call and what it    *)
(* returned; alloc is the set of native tables allocated during it.         *)
(***************************************************************************)
Heap == [tables |-> tables, objs |-> objs]
SchemaHeap == [nschemas |-> nschemas, schemas |-> schemas]

SchemaName == <<"o", "r", "g">>

NoCall ==
  [op |-> "none", a |-> 0, s |-> 0, ret |-> 0, err |-> "nil", alloc |-> {},
   val |-> GoNil, aLive |-> FALSE, sLive |-> FALSE, v |-> 0, vLive |-> FALSE,
   b |-> 0, args |-> <<>>, svc |-> <<>>, other |-> 0]

\* val is the value a call returns besides a handle and an error; aLive and
\* sLive tell whether the handles passed pointed to a native object on entry.
ReturnedVal(op, a, s, ret, err, H, val) ==
  [op |-> op, a |-> a, s |-> s, ret |-> ret, err |-> err,
   alloc |-> (Len(tables) + 1) .. Len(H.tables),
   val |-> val,
   aLive |-> a \in 1..Len(objs) /\ objs[a].cAttributes # 0,
   sLive |-> s \in 1..Len(schemas) /\ schemas[s].cSchema # 0,
   v |-> 0,
   vLive |-> FALSE,
   b |-> 0,
   args |-> <<>>,
   svc |-> <<>>,
   other |-> 0]

Returned(op, a, s, ret, err, H) == ReturnedVal(op, a, s, ret, err, H, GoNil)

\* The handles the caller may pass: 0 is nil.
HeldAttrs ==
  {a \in 1..Len(objs) :
     objs[a].reachable /\ \A b \in 1..Len(builders) : builders[b].attrs # a}
HeldSchemas == {s \in 1..Len(schemas) : schemas[s].reachable}

InitHeap ==
  /\ tables = <<>>
  /\ objs = <<>>
  /\ nschemas = <<>>
  /\ schemas = <<>>
  /\ nvalues = <<>>
  /\ valueObjs = <<>>
  /\ builders = <<>>
  /\ call = NoCall

DoNewSchema ==
  /\ Len(schemas) < MaxSchemas
  /\ LET r == NewSchema(SchemaHeap, input.sname, SchemaFlagsNone, input.sattrs)
     IN  /\ nschemas' = r.sheap.nschemas
         /\ schemas' = r.sheap.schemas
         /\ call' = Returned("NewSchema", 0, r.ret, 0, r.err, Heap)
  /\ UNCHANGED <<tables, objs, input, valueVars>>

DoSchemaUnref ==
  \E s \in HeldSchemas :
    /\ LET S == Unref(SchemaHeap, s)
       IN  /\ nschemas' = S.nschemas
           /\ schemas' = S.schemas
    /\ call' = Returned("Schema.Unref", 0, s, 0, "nil", Heap)
    /\ UNCHANGED <<tables, objs, input, valueVars>>

\* The predefined schemas, and a type the library does not know.
DoGetSchema ==
  /\ Len(schemas) < MaxSchemas
  /\ \E schemaType \in {SchemaTypeNote, SchemaTypeCompatNetwork, "UNKNOWN"} :
       LET r == GetSchema(SchemaHeap, schemaType)
       IN  /\ nschemas' = r.sheap.nschemas
           /\ schemas' = r.sheap.schemas
           /\ call' = Returned("GetSchema", 0, r.ret, 0, "nil", Heap)
  /\ UNCHANGED <<tables, objs, input, valueVars>>

\* The number of references taken, and of copies made, stays bounded.
DoSchemaRef ==
  \E s \in HeldSchemas :
    /\ schemas[s].cSchema # 0 =>
         IF nschemas[schemas[s].cSchema].static
         THEN Len(nschemas) < MaxSchemas + MaxRefs
         ELSE nschemas[schemas[s].cSchema].refs <= MaxRefs
    /\ LET r == SchemaRef(SchemaHeap, s)
       IN  /\ nschemas' = r.sheap.nschemas
           /\ schemas' = r.sheap.schemas
           /\ call' = Returned("Schema.Ref", 0, s, r.ret, "nil", Heap)
    /\ UNCHANGED <<tables, objs, input, valueVars>>

DoSchemaName ==
  \E s \in HeldSchemas :
    /\ call' = ReturnedVal("Schema.Name", 0, s, 0, "nil", Heap,
                           GoString(Name(SchemaHeap, s)))
    /\ UNCHANGED <<tables, objs, nschemas, schemas, input, valueVars>>

DoSchemaFlags ==
  \E s \in HeldSchemas :
    /\ call' = ReturnedVal("Schema.Flags", 0, s, 0, "nil", Heap,
                           GoInt("SchemaFlags", Flags(SchemaHeap, s)))
    /\ UNCHANGED <<tables, objs, nschemas, schemas, input, valueVars>>

\* Of the map returned, the call records nil or the length.
DoSchemaAttributes ==
  \E s \in HeldSchemas :
    /\ call' = ReturnedVal("Schema.Attributes", 0, s, 0, "nil", Heap,
                           IF SchemaAttributes(SchemaHeap, s).isNil THEN GoNil
                           ELSE GoInt("len",
                                      Cardinality(DOMAIN SchemaAttributes(
                                                    SchemaHeap, s).m)))
    /\ UNCHANGED <<tables, objs, nschemas, schemas, input, valueVars>>

DoIsBorrowed ==
  \E s \in HeldSchemas :
    /\ call' = ReturnedVal("IsBorrowed", 0, s, 0, "nil", Heap,
                           GoBool(IsBorrowed(SchemaHeap, s)))
    /\ UNCHANGED <<tables, objs, nschemas, schemas, input, valueVars>>

\* The caller drops its last reference to a Schema handle.
DoSchemaDrop ==
  \E s \in HeldSchemas :
    /\ schemas' = [schemas EXCEPT ![s].reachable = FALSE]
    /\ call' = NoCall
    /\ UNCHANGED <<tables, objs, nschemas, input, valueVars>>

\* The runtime runs the finalizer set by NewSchema, (*Schema).free, once, on
\* a handle nothing refers to any more.  GetSchema sets none.
DoSchemaFinalize ==
  \E s \in 1..Len(schemas) :
    /\ schemas[s].finalizer
    /\ ~schemas[s].reachable
    /\ ~schemas[s].finalized
    /\ LET S == SchemaFree(SchemaHeap, s)
       IN  /\ nschemas' = S.nschemas
           /\ schemas' = [S.schemas EXCEPT ![s].finalized = TRUE]
    /\ call' = Returned("Schema.free", 0, s, 0, "nil", Heap)
    /\ UNCHANGED <<tables, objs, input, valueVars>>

DoNewAttributes ==
  /\ Len(objs) < MaxObjs
  /\ LET r == NewAttributes(Heap)
     IN  /\ tables' = r.heap.tables
         /\ objs' = r.heap.objs
         /\ call' = Returned("NewAttributes", 0, 0, r.ret, "nil", r.heap)
  /\ UNCHANGED <<nschemas, schemas, input, valueVars>>

DoSet ==
  \E a \in HeldAttrs, kv \in input.pairs :
    /\ LET r == Set(Heap, a, kv[1], kv[2])
       IN  /\ tables' = r.heap.tables
           /\ objs' = r.heap.objs
           /\ call' = [Returned("Set", a, 0, 0, r.err, r.heap)
                         EXCEPT !.args = <<GoString(kv[1]), GoString(kv[2])>>]
    /\ UNCHANGED <<nschemas, schemas, input, valueVars>>

DoDelete ==
  \E a \in HeldAttrs, kv \in input.pairs :
    /\ LET r == Delete(Heap, a, kv[1])
       IN  /\ tables' = r.heap.tables
           /\ objs' = r.heap.objs
           /\ call' = ReturnedVal("Delete", a, 0, 0, "nil", r.heap,
                                  GoBool(r.ret))
    /\ UNCHANGED <<nschemas, schemas, input, valueVars>>

DoFree ==
  \E a \in HeldAttrs :
    /\ LET H == Free(Heap, a)
       IN  /\ tables' = H.tables
           /\ objs' = H.objs
           /\ call' = Returned("Free", a, 0, 0, "nil", H)
    /\ UNCHANGED <<nschemas, schemas, input, valueVars>>

\* The caller drops its last reference to a handle.
DoDrop ==
  \E a \in HeldAttrs :
    /\ objs' = Unreachable(Heap, a).objs
    /\ call' = NoCall
    /\ UNCHANGED <<tables, nschemas, schemas, input, valueVars>>

\* The runtime runs the finalizer set by NewAttributes, (*Attributes).free,
\* once, on an object nothing refers to any more.
DoFinalize ==
  \E a \in 1..Len(objs) :
    /\ ~objs[a].reachable
    /\ ~objs[a].finalized
    /\ LET H == free(Heap, a)
       IN  /\ tables' = H.tables
           /\ objs' = [H.objs EXCEPT ![a].finalized = TRUE]
    /\ call' = NoCall
    /\ UNCHANGED <<nschemas, schemas, input, valueVars>>

\* Clone allocates a container: the number of containers stays bounded.
DoClone ==
  /\ Len(objs) < MaxObjs + MaxClones
  /\ \E a \in HeldAttrs :
       LET r == Clone(Heap, a)
       IN  /\ tables' = r.heap.tables
           /\ objs' = r.heap.objs
           /\ call' = Returned("Clone", a, 0, r.ret, r.err, r.heap)
  /\ UNCHANGED <<nschemas, schemas, input, valueVars>>

\* Equals on any two handles the caller holds, nil included.
DoEquals ==
  \E a \in {0} \cup HeldAttrs, other \in {0} \cup HeldAttrs :
    /\ call' = [ReturnedVal("Equals", a, 0, 0, "nil", Heap,
                            GoBool(Equals(Heap, a, other)))
                  EXCEPT !.other = other]
    /\ UNCHANGED <<tables, objs, nschemas, schemas, input, valueVars>>

\* The read-only accessors: only the value they return is recorded.
DoGet ==
  \E a \in HeldAttrs, kv \in input.pairs :
    /\ call' = ReturnedVal("Get", a, 0, 0, "nil", Heap,
                           GoString(Get(Heap, a, kv[1])))
    /\ UNCHANGED <<tables, objs, nschemas, schemas, input, valueVars>>

DoHas ==
  \E a \in HeldAttrs, kv \in input.pairs :
    /\ call' = ReturnedVal("Has", a, 0, 0, "nil", Heap,
                           GoBool(Has(Heap, a, kv[1])))
    /\ UNCHANGED <<tables, objs, nschemas, schemas, input, valueVars>>

DoLen ==
  \E a \in HeldAttrs :
    /\ call' = ReturnedVal("Len", a, 0, 0, "nil", Heap,
                           GoInt("int", AttrLen(Heap, a)))
    /\ UNCHANGED <<tables, objs, nschemas, schemas, input, valueVars>>

DoIsEmpty ==
  \E a \in HeldAttrs :
    /\ call' = ReturnedVal("IsEmpty", a, 0, 0, "nil", Heap,
                           GoBool(IsEmpty(Heap, a)))
    /\ UNCHANGED <<tables, objs, nschemas, schemas, input, valueVars>>

\* Of the slice and the map returned, the call records nil or the length.
DoKeys ==
  \E a \in HeldAttrs :
    /\ call' = ReturnedVal("Keys", a, 0, 0, "nil", Heap,
                           IF Keys(Heap, a).isNil THEN GoNil
                           ELSE GoInt("len", Cardinality(Keys(Heap, a).keys)))
    /\ UNCHANGED <<tables, objs, nschemas, schemas, input, valueVars>>

DoToMap ==
  \E a \in HeldAttrs :
    /\ call' = ReturnedVal("ToMap", a, 0, 0, "nil", Heap,
                           IF ToMap(Heap, a).isNil THEN GoNil
                           ELSE GoInt("len",
                                      Cardinality(DOMAIN ToMap(Heap, a).m)))
    /\ UNCHANGED <<tables, objs, nschemas, schemas, input, valueVars>>

DoValidate ==
  \E a \in HeldAttrs, s \in {0} \cup HeldSchemas, native \in BOOLEAN :
    /\ call' = Returned("Validate", a, s, 0,
                        Validate(Heap, SchemaHeap, a, s, native), Heap)
    /\ UNCHANGED <<tables, objs, nschemas, schemas, input, valueVars>>

ValueHeap == [nvalues |-> nvalues, valueObjs |-> valueObjs]

HeldValues == {v \in 1..Len(valueObjs) : valueObjs[v].reachable}

\* The record of a call on Value handle v (0 for none); vLive tells whether v
\* pointed to a native value that was not released on entry.
ReturnedOfValue(op, v, ret, err, val) ==
  [NoCall EXCEPT !.op = op, !.v = v, !.ret = ret, !.err = err, !.val = val,
                 !.vLive = /\ v \in 1..Len(valueObjs)
                           /\ valueObjs[v].cValue # 0
                           /\ ~nvalues[valueObjs[v].cValue].freed]

\* The content a native read yields for handle v.
ReadsOf(v) ==
  IF valueObjs[v].cValue = 0 THEN {<<>>}
  ELSE ReadOf(ValueHeap, valueObjs[v].cValue,
              nvalues[valueObjs[v].cValue].secret)

\* Whether the decrement of a native unref on handle v may go unseen; the
\* count of a released value is followed down to -MaxRefs only.
ShowsOf(v) ==
  IF valueObjs[v].cValue = 0 THEN {TRUE}
  ELSE IF ~nvalues[valueObjs[v].cValue].freed THEN {TRUE}
  ELSE IF nvalues[valueObjs[v].cValue].refs > 0 - MaxRefs THEN {TRUE, FALSE}
  ELSE {FALSE}

DoNewValue ==
  /\ Len(valueObjs) < MaxValues
  /\ LET r == NewValue(ValueHeap, input.secret, input.length, input.contentType)
     IN  /\ nvalues' = r.vheap.nvalues
         /\ valueObjs' = r.vheap.valueObjs
         /\ call' = ReturnedOfValue("NewValue", 0, r.ret, r.err, GoNil)
  /\ UNCHANGED <<tables, objs, nschemas, schemas, builders, input>>

DoNewValueFromBytes ==
  /\ Len(valueObjs) < MaxValues
  /\ LET r == NewValueFromBytes(ValueHeap, input.secret, input.contentType)
     IN  /\ nvalues' = r.vheap.nvalues
         /\ valueObjs' = r.vheap.valueObjs
         /\ call' = ReturnedOfValue("NewValueFromBytes", 0, r.ret, r.err, GoNil)
  /\ UNCHANGED <<tables, objs, nschemas, schemas, builders, input>>

DoValueGet ==
  \E v \in HeldValues : \E read \in ReadsOf(v) :
    LET r == ValueGet(ValueHeap, v, read)
    IN  /\ nvalues' = r.vheap.nvalues
        /\ valueObjs' = r.vheap.valueObjs
        /\ call' = ReturnedOfValue("Value.Get", v, 0, r.err,
                                   [GoString(r.data) EXCEPT !.n = r.n])
        /\ UNCHANGED <<tables, objs, nschemas, schemas, builders, input>>

DoGetText ==
  \E v \in HeldValues : \E read \in ReadsOf(v) :
    LET r == GetText(ValueHeap, v, read)
    IN  /\ nvalues' = r.vheap.nvalues
        /\ valueObjs' = r.vheap.valueObjs
        /\ call' = ReturnedOfValue("GetText", v, 0, r.err, GoString(r.s))
        /\ UNCHANGED <<tables, objs, nschemas, schemas, builders, input>>

DoGetContentType ==
  \E v \in HeldValues :
    LET r == GetContentType(ValueHeap, v)
    IN  /\ nvalues' = r.vheap.nvalues
        /\ valueObjs' = r.vheap.valueObjs
        /\ call' = ReturnedOfValue("GetContentType", v, 0, r.err, GoString(r.s))
        /\ UNCHANGED <<tables, objs, nschemas, schemas, builders, input>>

DoValueLen ==
  \E v \in HeldValues : \E read \in ReadsOf(v) :
    LET r == ValueLen(ValueHeap, v, read)
    IN  /\ nvalues' = r.vheap.nvalues
        /\ valueObjs' = r.vheap.valueObjs
        /\ call' = ReturnedOfValue("Value.Len", v, 0, "nil", GoInt("int", r.n))
        /\ UNCHANGED <<tables, objs, nschemas, schemas, builders, input>>

\* The number of references taken on one native value stays bounded.
DoValueRef ==
  \E v \in HeldValues :
    /\ valueObjs[v].cValue # 0 => nvalues[valueObjs[v].cValue].taken < MaxRefs
    /\ LET r == ValueRef(ValueHeap, v)
       IN  /\ nvalues' = r.vheap.nvalues
           /\ valueObjs' = r.vheap.valueObjs
           /\ call' = ReturnedOfValue("Value.Ref", v, r.ret, "nil", GoNil)
    /\ UNCHANGED <<tables, objs, nschemas, schemas, builders, input>>

DoValueUnref ==
  \E v \in HeldValues : \E shows \in ShowsOf(v) :
    LET V == ValueUnref(ValueHeap, v, shows)
    IN  /\ nvalues' = V.nvalues
        /\ valueObjs' = V.valueObjs
        /\ call' = ReturnedOfValue("Value.Unref", v, 0, "nil", GoNil)
        /\ UNCHANGED <<tables, objs, nschemas, schemas, builders, input>>

DoToPassword ==
  \E v \in HeldValues : \E read \in ReadsOf(v), shows \in ShowsOf(v) :
    LET r == ToPassword(ValueHeap, v, read, shows)
    IN  /\ nvalues' = r.vheap.nvalues
        /\ valueObjs' = r.vheap.valueObjs
        /\ call' = ReturnedOfValue("ToPassword", v, 0, "nil", GoString(r.s))
        /\ UNCHANGED <<tables, objs, nschemas, schemas, builders, input>>

\* The caller drops its last reference to a Value handle.
DoValueDrop ==
  \E v \in HeldValues :
    /\ valueObjs' = [valueObjs EXCEPT ![v].reachable = FALSE]
    /\ call' = NoCall
    /\ UNCHANGED <<tables, objs, nschemas, schemas, nvalues, builders, input>>

\* The runtime runs the finalizer set by NewValue, (*Value).free, once, on a
\* handle nothing refers to any more.
DoValueFinalize ==
  \E v \in 1..Len(valueObjs) : \E shows \in ShowsOf(v) :
    /\ ~valueObjs[v].reachable
    /\ ~valueObjs[v].finalized
    /\ LET V == ValueFree(ValueHeap, v, shows)
       IN  /\ nvalues' = V.nvalues
           /\ valueObjs' = [V.valueObjs EXCEPT ![v].finalized = TRUE]
    /\ call' = ReturnedOfValue("Value.free", v, 0, "nil", GoNil)
    /\ UNCHANGED <<tables, objs, nschemas, schemas, builders, input>>

\* The record of a call on builder b with arguments args.
ReturnedOfBuilder(op, b, ret, err, args) ==
  [NoCall EXCEPT !.op = op, !.b = b, !.ret = ret, !.err = err, !.args = args]

\* The key/value pairs of the caller's argument list whose value has type ty.
PairsOfType(ty) ==
  {i \in 1..(Len(input.args) - 1) :
     /\ i % 2 = 1
     /\ input.args[i].t = "string"
     /\ input.args[i + 1].t = ty}

DoNewAttributeBuilder ==
  /\ Len(builders) < MaxBuilders
  /\ Len(objs) < MaxObjs
  /\ LET r == NewAttributeBuilder(Heap, builders)
     IN  /\ tables' = r.heap.tables
         /\ objs' = r.heap.objs
         /\ builders' = r.builders
         /\ call' = ReturnedOfBuilder("NewAttributeBuilder", r.ret, 0, "nil",
                                      <<>>)
  /\ UNCHANGED <<nschemas, schemas, nvalues, valueObjs, input>>

DoWithString ==
  \E b \in 1..Len(builders), i \in PairsOfType("string") :
    LET H == WithString(Heap, builders, b, input.args[i].s, input.args[i + 1].s)
    IN  /\ tables' = H.tables
        /\ objs' = H.objs
        /\ call' = ReturnedOfBuilder("WithString", b, 0, "nil",
                                     <<input.args[i], input.args[i + 1]>>)
        /\ UNCHANGED <<builders, nschemas, schemas, nvalues, valueObjs, input>>

DoWithInteger ==
  \E b \in 1..Len(builders), i \in PairsOfType("int") :
    LET H == WithInteger(Heap, builders, b, input.args[i].s,
                         input.args[i + 1].n)
    IN  /\ tables' = H.tables
        /\ objs' = H.objs
        /\ call' = ReturnedOfBuilder("WithInteger", b, 0, "nil",
                                     <<input.args[i], input.args[i + 1]>>)
        /\ UNCHANGED <<builders, nschemas, schemas, nvalues, valueObjs, input>>

DoWithBoolean ==
  \E b \in 1..Len(builders), i \in PairsOfType("bool") :
    LET H == WithBoolean(Heap, builders, b, input.args[i].s,
                         input.args[i + 1].b)
    IN  /\ tables' = H.tables
        /\ objs' = H.objs
        /\ call' = ReturnedOfBuilder("WithBoolean", b, 0, "nil",
                                     <<input.args[i], input.args[i + 1]>>)
        /\ UNCHANGED <<builders, nschemas, schemas, nvalues, valueObjs, input>>

DoBuild ==
  \E b \in 1..Len(builders) :
    LET r == Build(Heap, builders, b)
    IN  /\ tables' = r.heap.tables
        /\ objs' = r.heap.objs
        /\ builders' = r.builders
        /\ call' = ReturnedOfBuilder("Build", b, r.ret, r.err, <<>>)
        /\ UNCHANGED <<nschemas, schemas, nvalues, valueObjs, input>>

DoBuilderFree ==
  \E b \in 1..Len(builders) :
    LET r == BuilderFree(Heap, builders, b)
    IN  /\ tables' = r.heap.tables
        /\ objs' = r.heap.objs
        /\ builders' = r.builders
        /\ call' = ReturnedOfBuilder("AttributeBuilder.Free", b, 0, "nil", <<>>)
        /\ UNCHANGED <<nschemas, schemas, nvalues, valueObjs, input>>

\* What the secret service may answer: an error, nothing, or a result.
ServiceOutcomes ==
  {[kind |-> "error", secret |-> <<>>],
   [kind |-> "none", secret |-> <<>>],
   [kind |-> "found", secret |-> <<"p", "w">>]}

\* The record of a password call on container a, schema s and value v.
ReturnedOfPassword(op, a, s, v, err, H, val, svc) ==
  [ReturnedVal(op, a, s, 0, err, H, val)
     EXCEPT !.v = v,
            !.vLive = /\ v \in 1..Len(valueObjs)
                      /\ valueObjs[v].cValue # 0
                      /\ ~nvalues[valueObjs[v].cValue].freed,
            !.svc = svc]

DoPasswordLookupSync ==
  \E a \in {0} \cup HeldAttrs, s \in {0} \cup HeldSchemas,
     out \in ServiceOutcomes :
    LET r == PasswordLookupSync(Heap, SchemaHeap, s, a, out)
    IN  /\ call' = ReturnedOfPassword("PasswordLookupSync", a, s, 0, r.err,
                                      Heap, GoString(r.password), r.svc)
        /\ UNCHANGED <<tables, objs, nschemas, schemas, input, valueVars>>

DoPasswordStoreSync ==
  \E a \in {0} \cup HeldAttrs, s \in {0} \cup HeldSchemas,
     out \in ServiceOutcomes :
    LET r == PasswordStoreSync(Heap, SchemaHeap, s, a, CollectionDefault,
                               input.label, input.password, out)
    IN  /\ call' = ReturnedOfPassword("PasswordStoreSync", a, s, 0, r.err,
                                      Heap, GoNil, r.svc)
        /\ UNCHANGED <<tables, objs, nschemas, schemas, input, valueVars>>

DoPasswordStoreBinarySync ==
  \E a \in {0} \cup HeldAttrs, s \in {0} \cup HeldSchemas,
     v \in {0} \cup HeldValues, out \in ServiceOutcomes :
    LET r == PasswordStoreBinarySync(Heap, SchemaHeap, ValueHeap, s, a,
                                     CollectionDefault, input.label, v, out)
    IN  /\ nvalues' = r.vheap.nvalues
        /\ valueObjs' = r.vheap.valueObjs
        /\ call' = ReturnedOfPassword("PasswordStoreBinarySync", a, s, v,
                                      r.err, Heap, GoNil, r.svc)
        /\ UNCHANGED <<tables, objs, nschemas, schemas, builders, input>>

DoPasswordSearchSync ==
  \E a \in {0} \cup HeldAttrs, s \in {0} \cup HeldSchemas,
     out \in ServiceOutcomes :
    LET r == PasswordSearchSync(Heap, SchemaHeap, s, a, SearchFlagsNone, out)
    IN  /\ call' = ReturnedOfPassword("PasswordSearchSync", a, s, 0, r.err,
                                      Heap, GoInt("int", r.results), r.svc)
        /\ UNCHANGED <<tables, objs, nschemas, schemas, input, valueVars>>

DoLookupPassword ==
  /\ Len(objs) < MaxObjs
  /\ \E s \in {0} \cup HeldSchemas, out \in ServiceOutcomes,
        order \in Orders(DOMAIN input.values) :
       LET r == LookupPassword(Heap, SchemaHeap, s, input.values, order, out)
       IN  /\ tables' = r.heap.tables
           /\ objs' = r.heap.objs
           /\ call' = ReturnedOfPassword("LookupPassword", 0, s, 0, r.err,
                                         r.heap, GoString(r.password), r.svc)
  /\ UNCHANGED <<nschemas, schemas, input, valueVars>>

DoStorePassword ==
  /\ Len(objs) < MaxObjs
  /\ \E s \in {0} \cup HeldSchemas, out \in ServiceOutcomes,
        order \in Orders(DOMAIN input.values) :
       LET r == StorePassword(Heap, SchemaHeap, s, input.values, order,
                              CollectionDefault, input.label, input.password,
                              out)
       IN  /\ tables' = r.heap.tables
           /\ objs' = r.heap.objs
           /\ call' = ReturnedOfPassword("StorePassword", 0, s, 0, r.err,
                                         r.heap, GoNil, r.svc)
  /\ UNCHANGED <<nschemas, schemas, input, valueVars>>

DoStoreBinarySecret ==
  /\ Len(objs) < MaxObjs
  /\ \E s \in {0} \cup HeldSchemas, v \in {0} \cup HeldValues,
        out \in ServiceOutcomes, order \in Orders(DOMAIN input.values) :
       LET r == StoreBinarySecret(Heap, SchemaHeap, ValueHeap, s, input.values,
                                  order, CollectionDefault, input.label, v, out)
       IN  /\ tables' = r.heap.tables
           /\ objs' = r.heap.objs
           /\ nvalues' = r.vheap.nvalues
           /\ valueObjs' = r.vheap.valueObjs
           /\ call' = ReturnedOfPassword("StoreBinarySecret", 0, s, v, r.err,
                                         r.heap, GoNil, r.svc)
  /\ UNCHANGED <<nschemas, schemas, builders, input>>

DoSearchPasswords ==
  /\ Len(objs) < MaxObjs
  /\ \E s \in {0} \cup HeldSchemas, out \in ServiceOutcomes,
        order \in Orders(DOMAIN input.values) :
       LET r == SearchPasswords(Heap, SchemaHeap, s, input.values, order,
                                SearchFlagsNone, out)
       IN  /\ tables' = r.heap.tables
           /\ objs' = r.heap.objs
           /\ call' = ReturnedOfPassword("SearchPasswords", 0, s, 0, r.err,
                                         r.heap, GoInt("int", r.results), r.svc)
  /\ UNCHANGED <<nschemas, schemas, input, valueVars>>

\* The helpers are applied to the first argument of the caller.
DoNormalizeBooleanAttribute ==
  /\ Len(input.args) > 0
  /\ LET r == NormalizeBooleanAttribute(input.args[1])
     IN  call' = ReturnedVal("NormalizeBooleanAttribute", 0, 0, 0, r.err, Heap,
                             GoString(r.s))
  /\ UNCHANGED <<tables, objs, nschemas, schemas, input, valueVars>>

DoNormalizeIntegerAttribute ==
  /\ Len(input.args) > 0
  /\ LET r == NormalizeIntegerAttribute(input.args[1])
     IN  call' = ReturnedVal("NormalizeIntegerAttribute", 0, 0, 0, r.err, Heap,
                             GoString(r.s))
  /\ UNCHANGED <<tables, objs, nschemas, schemas, input, valueVars>>

DoValidateAttributesAgainstSchema ==
  \E s \in {0} \cup HeldSchemas, a \in {0} \cup HeldAttrs :
    \E order \in Orders(IF a = 0 THEN {} ELSE DOMAIN ToMap(Heap, a).m) :
      /\ call' = Returned("ValidateAttributesAgainstSchema", a, s, 0,
                          ValidateAttributesAgainstSchema(Heap, SchemaHeap,
                                                          s, a, order),
                          Heap)
      /\ UNCHANGED <<tables, objs, nschemas, schemas, input, valueVars>>

DoBuildAttributes ==
  /\ Len(objs) < MaxObjs
  /\ LET r == BuildAttributes(Heap, input.args)
     IN  /\ tables' = r.heap.tables
         /\ objs' = r.heap.objs
         /\ call' = Returned("BuildAttributes", 0, 0, r.ret, r.err, r.heap)
  /\ UNCHANGED <<nschemas, schemas, input, valueVars>>

\* The keys BuildAttributes stores for args: those the validation ranges over.
BuiltKeys(args) ==
  LET b == BuildAttributes([tables |-> <<>>, objs |-> <<>>], args)
  IN  IF b.ret = 0 THEN {} ELSE DOMAIN ToMap(b.heap, b.ret).m

DoBuildAttributesV ==
  /\ Len(objs) < MaxObjs
  /\ \E s \in {0} \cup HeldSchemas :
       \E order \in Orders(BuiltKeys(input.args)) :
         LET r == BuildAttributesV(Heap, SchemaHeap, s, input.args, order)
         IN  /\ tables' = r.heap.tables
             /\ objs' = r.heap.objs
             /\ call' = Returned("BuildAttributesV", 0, s, r.ret, r.err, r.heap)
  /\ UNCHANGED <<nschemas, schemas, input, valueVars>>

DoAttributesFromMap ==
  /\ Len(objs) < MaxObjs
  /\ \E order \in Orders(DOMAIN input.values) :
       LET r == AttributesFromMap(Heap, input.values, order)
       IN  /\ tables' = r.heap.tables
           /\ objs' = r.heap.objs
           /\ call' = Returned("AttributesFromMap", 0, 0, r.ret, r.err, r.heap)
  /\ UNCHANGED <<nschemas, schemas, input, valueVars>>

(***************************************************************************)
(* The arguments of the calls.                                              *)
(***************************************************************************)
StrV == <<"v">>
StrW == <<"w">>

\* Argument lists of at most n values drawn from U.
RECURSIVE ArgLists(_, _)
ArgLists(U, n) ==
  IF n = 0 THEN {<<>>}
  ELSE LET shorter == ArgLists(U, n - 1)
       IN  shorter \cup {Append(l, v) : l \in shorter, v \in U}

ArgUniverse ==
  {GoString(KeyA), GoString(KeyB), GoString(<<>>), GoInt("int", 8080),
   GoBool(TRUE), GoNil, GoFloat}

\* Native integers of every width, with the extremes of the narrow types.
IntegerSamples ==
  {GoInt("int", 0), GoInt("int", 8080), GoInt("int", -42),
   GoInt("int", 2147483647), GoInt("int", -2147483647),
   GoInt("int8", -128), GoInt("int8", 127), GoInt("int8", -1),
   GoInt("int16", -32768), GoInt("int16", 32767),
   GoInt("int32", -100000), GoInt("int32", 1000),
   GoInt("int64", 100), GoInt("int64", -9),
   GoInt("uint", 0), GoInt("uint", 10),
   GoInt("uint8", 255), GoInt("uint8", 7),
   GoInt("uint16", 65535), GoInt("uint32", 101), GoInt("uint64", 90909)}

ScenarioArgs ==
  <<GoString(KeyUsername), GoString(StrJohn),
    GoString(KeyPort), GoInt("int", 8080),
    GoString(KeySsl), GoBool(TRUE)>>

ScenarioSchema ==
  [k \in {KeyUsername, KeyPort, KeySsl} |->
     IF k = KeyUsername THEN SchemaAttributeString
     ELSE IF k = KeyPort THEN SchemaAttributeInteger
     ELSE SchemaAttributeBoolean]

\* Maps from a subset of keys to the elements of vals.
MapsOver(keys, vals) ==
  UNION {[ks -> vals] : ks \in SUBSET keys}

DefaultValues == [k \in {KeyA} |-> StrV]
DefaultPairs == {<<KeyA, StrTrue>>, <<<<>>, StrV>>}
SchemaA(ty) == [k \in {KeyA} |-> ty]
SchemaAB(ta, tb) == [k \in {KeyA, KeyB} |-> IF k = KeyA THEN ta ELSE tb]

InputOf(args, values, sattrs, pairs) ==
  [args |-> args, values |-> values, sattrs |-> sattrs, pairs |-> pairs,
   secret |-> StrV, length |-> -1, contentType |-> TextPlain,
   sname |-> SchemaName, label |-> StrV, password |-> StrV]

\* The callers of the builders: every short argument list, the integer and
\* boolean coercions, and every small map.
BuildInputs ==
  {InputOf(l, DefaultValues, SchemaA(SchemaAttributeInteger), DefaultPairs) :
     l \in ArgLists(ArgUniverse, MaxArgs)}
  \cup
  {InputOf(<<GoString(KeyA), v>>, DefaultValues, SchemaA(ty), DefaultPairs) :
     v \in IntegerSamples \cup {GoBool(TRUE), GoBool(FALSE)},
     ty \in {SchemaAttributeInteger, SchemaAttributeBoolean}}
  \cup
  {InputOf(<<GoString(KeyA), v, GoString(KeyB), w>>, DefaultValues,
           SchemaAB(SchemaAttributeInteger, SchemaAttributeBoolean),
           DefaultPairs) :
     v \in IntegerSamples, w \in {GoBool(TRUE), GoBool(FALSE)}}
  \cup
  {InputOf(ScenarioArgs, DefaultValues, ScenarioSchema, DefaultPairs)}
  \cup
  {InputOf(l, DefaultValues, SchemaA(SchemaAttributeString), DefaultPairs) :
     l \in {<<GoString(KeyA), GoString(StrV), GoNil>>,
            <<GoString(KeyA), GoString(StrV), GoNil, GoNil>>,
            <<GoString(KeyA), GoString(StrV), GoString(KeyA), GoBool(TRUE),
              GoNil>>,
            <<GoNil, GoString(KeyA), GoInt("int", 8080), GoString(StrV)>>,
            <<GoString(KeyA), GoNil, GoString(KeyB), GoString(StrV)>>}}
  \cup
  {InputOf(<<GoString(KeyA), GoString(StrV)>>, m,
           SchemaA(SchemaAttributeString), DefaultPairs) :
     m \in MapsOver({<<>>, KeyA, KeyB}, {<<>>, StrV, StrW})}

\* The callers of the validator: one container value of every short string
\* over the characters the Integer check looks at, and the literals.
ValidateStrings ==
  StringsUpTo({"-", "5"}, MaxStrLen)
    \cup {<<"+", "5">>, <<"1", "-", "2">>, <<"0">>, Str8080,
          StrTrue, StrFalse, StrYes, <<"T", "R", "U", "E">>}

ValidateSchemas ==
  {SchemaA(ty) : ty \in SchemaAttributeTypes}
    \cup {SchemaAB(ty, SchemaAttributeBoolean) : ty \in SchemaAttributeTypes}
    \cup {[k \in {KeyB} |-> SchemaAttributeBoolean]}

ValidateInputs ==
  {InputOf(<<GoString(KeyA), GoString(va)>>, DefaultValues, sa,
           {<<KeyA, va>>, <<KeyB, vb>>}) :
     va \in ValidateStrings, vb \in {StrTrue, StrYes}, sa \in ValidateSchemas}

\* The callers of the whole interface, with a few arguments of each shape.
LifecycleInputs ==
  {InputOf(<<>>, EmptyMap, SchemaA(SchemaAttributeString), DefaultPairs),
   InputOf(<<GoNil>>, DefaultValues, SchemaA(SchemaAttributeString),
           DefaultPairs),
   InputOf(<<GoString(KeyA)>>, [k \in {KeyA, <<>>} |-> StrV],
           SchemaA(SchemaAttributeString), DefaultPairs),
   InputOf(<<GoString(KeyA), GoString(StrV)>>, DefaultValues,
           SchemaA(SchemaAttributeString), DefaultPairs),
   InputOf(<<GoString(KeyA), GoString(StrV)>>, DefaultValues,
           SchemaA(SchemaAttributeBoolean), DefaultPairs),
   InputOf(<<GoString(KeyA), GoBool(TRUE), GoNil>>,
           [k \in {KeyA, KeyB} |-> IF k = KeyA THEN <<>> ELSE StrW],
           SchemaA(SchemaAttributeBoolean), DefaultPairs),
   InputOf(<<GoString(KeyA), GoFloat>>, DefaultValues,
           SchemaA(SchemaAttributeString), DefaultPairs),
   InputOf(<<GoInt("int", 8080), GoString(StrV)>>, DefaultValues,
           SchemaA(SchemaAttributeString), DefaultPairs),
   InputOf(<<GoString(<<>>), GoString(StrV)>>, DefaultValues,
           SchemaA(SchemaAttributeString), DefaultPairs),
   InputOf(<<GoString(KeyB), GoString(StrV)>>, DefaultValues,
           SchemaA(SchemaAttributeString), DefaultPairs)}

\* The callers of the container's methods: two keys, and the empty key.
ContainerPairs == {<<KeyA, StrV>>, <<KeyB, StrW>>, <<<<>>, StrV>>}

ContainerInputs ==
  {InputOf(<<GoString(KeyA), GoString(StrV)>>, DefaultValues,
           SchemaA(SchemaAttributeString), pairs) :
     pairs \in {ContainerPairs, DefaultPairs,
                {<<KeyA, StrV>>, <<KeyA, StrW>>}}}

\* The callers that compare containers: two keys, or two values for one.
EqualsInputs ==
  {InputOf(<<GoString(KeyA), GoString(StrV)>>, DefaultValues,
           SchemaA(SchemaAttributeString), pairs) :
     pairs \in {{<<KeyA, StrV>>, <<KeyB, StrW>>},
                {<<KeyA, StrV>>, <<KeyA, StrW>>}}}

ReleaseInputs ==
  {InputOf(<<GoString(KeyA), GoString(StrV)>>, DefaultValues,
           SchemaA(SchemaAttributeString), {kv}) :
     kv \in {<<KeyA, StrV>>}}

\* The spellings of a word in every mix of upper and lower case.
UpperOf(c) ==
  CASE c = "t" -> "T" [] c = "r" -> "R" [] c = "u" -> "U" [] c = "e" -> "E"
    [] c = "f" -> "F" [] c = "a" -> "A" [] c = "l" -> "L" [] c = "s" -> "S"
    [] c = "y" -> "Y" [] OTHER -> c

CaseMixes(word) ==
  {[i \in 1..Len(word) |-> IF i \in up THEN UpperOf(word[i]) ELSE word[i]] :
     up \in SUBSET (1..Len(word))}

\* The values given to the normalization helpers: every spelling of the
\* boolean words, every short string over the characters the integer scan
\* tells apart, and native values of every type.
NormalizeStrings ==
  CaseMixes(StrTrue) \cup CaseMixes(StrFalse) \cup CaseMixes(StrYes)
    \cup StringsUpTo({"4", "0", "1", "-", "+", " ", "a", "_"}, MaxStrLen)
    \cup {Str8080, <<"4", "2", "a", "b", "c">>, <<"-", "4", "2">>}

NormalizeValues ==
  {GoString(s) : s \in NormalizeStrings}
    \cup IntegerSamples
    \cup {GoInt(ty, n) : ty \in SignedTypes \cup UnsignedTypes, n \in {0, 1}}
    \cup {GoBool(TRUE), GoBool(FALSE), GoNil, GoFloat}

NormalizeInputs ==
  {InputOf(<<v>>, DefaultValues, SchemaA(SchemaAttributeString), DefaultPairs) :
     v \in NormalizeValues}

\* The callers of NewValue and NewValueFromBytes.
StrPw == <<"p", "w">>

ValueInputs ==
  {[InputOf(<<>>, DefaultValues, SchemaA(SchemaAttributeString), DefaultPairs)
      EXCEPT !.secret = c[1], !.length = c[2], !.contentType = c[3]] :
     c \in {<<<<>>, -1, TextPlain>>,
            <<StrPw, -1, NoContentType>>,
            <<StrPw, -1, TextPlain>>,
            <<StrPw, 1, TextPlain>>,
            <<StrPw, -1, OctetStream>>}}

\* The callers of NewSchema.
SchemaInputs ==
  {InputOf(<<>>, DefaultValues, sattrs, DefaultPairs) :
     sattrs \in {SchemaA(SchemaAttributeString),
                 SchemaAB(SchemaAttributeInteger, SchemaAttributeBoolean),
                 ScenarioSchema,
                 [k \in {} |-> SchemaAttributeString]}}

\* The attribute maps of the schema tests: n attributes attr1 .. attrn.
AttrName(i) == <<"a", "t", "t", "r">> \o FormatNat(i)

AttrsOfSize(n) == [k \in {AttrName(i) : i \in 1..n} |-> SchemaAttributeString]

\* The callers of NewSchema: an empty or a dotted name, and no attribute, a
\* few, the most the schema takes, and one more.
NewSchemaInputs ==
  {[InputOf(<<>>, DefaultValues, AttrsOfSize(n), DefaultPairs)
      EXCEPT !.sname = name] :
     name \in {<<>>, SchemaName},
     n \in {0, 1, 2, MaxSchemaAttributes - 1, MaxSchemaAttributes,
            MaxSchemaAttributes + 1}}

\* The callers of the password functions: a label and a password, each
\* empty or not, and one attribute to set.
StrLabel == <<"L">>

PasswordInputs ==
  {[InputOf(<<>>, DefaultValues, SchemaA(SchemaAttributeString),
            {<<KeyA, StrV>>})
      EXCEPT !.label = l, !.password = pw, !.secret = StrPw] :
     l \in {<<>>, StrLabel}, pw \in {<<>>, StrPw}}

\* The callers of the map functions: no entry, one, an empty key, alone or
\* not, an empty value, and two entries.
PasswordMapInputs ==
  {[InputOf(<<>>, m, SchemaA(SchemaAttributeString), DefaultPairs)
      EXCEPT !.label = StrLabel, !.password = StrPw, !.secret = StrPw] :
     m \in {EmptyMap,
            DefaultValues,
            [k \in {<<>>} |-> StrV],
            [k \in {<<>>, KeyA} |-> StrV],
            [k \in {KeyA} |-> <<>>],
            [k \in {KeyA, KeyB} |-> IF k = KeyA THEN StrV ELSE StrW]}}

\* The callers of every constructor of a container: an argument list, a map
\* and the pairs to set or delete, with empty keys and empty values.
AllConstructorsInputs ==
  {InputOf(<<GoString(KeyA), GoString(StrV), GoString(KeyB), GoBool(TRUE)>>,
           [k \in {KeyA, KeyB} |-> IF k = KeyA THEN StrV ELSE StrW],
           SchemaA(SchemaAttributeString),
           {<<KeyA, StrW>>, <<<<>>, StrV>>}),
   InputOf(<<GoString(<<>>), GoString(StrV), GoString(KeyB), GoInt("int", 8080)>>,
           [k \in {<<>>, KeyA} |-> StrV],
           SchemaA(SchemaAttributeString),
           {<<KeyB, <<>>>>})}

\* The callers of the builder: the pairs they pass to the With methods.
BuilderInputs ==
  {InputOf(l, DefaultValues, SchemaA(SchemaAttributeString), DefaultPairs) :
     l \in {ScenarioArgs,
            <<GoString(KeyA), GoString(StrV), GoString(KeyB), GoInt("int", 8080),
              GoString(KeyA), GoBool(TRUE)>>,
            <<GoString(<<>>), GoString(StrV), GoString(KeyA), GoInt("int", -42),
              GoString(KeyB), GoBool(FALSE)>>,
            <<GoString(KeyA), GoString(<<>>), GoString(KeyA), GoInt("int", 0),
              GoString(<<>>), GoBool(TRUE)>>}}

(***************************************************************************)
(* Specifications.                                                          *)
(***************************************************************************)
Init == InitHeap /\ input \in LifecycleInputs

Next ==
  \/ DoNewSchema
  \/ DoSchemaUnref
  \/ DoNewAttributes
  \/ DoSet
  \/ DoDelete
  \/ DoFree
  \/ DoDrop
  \/ DoFinalize
  \/ DoValidateAttributesAgainstSchema
  \/ DoBuildAttributes
  \/ DoBuildAttributesV
  \/ DoAttributesFromMap

Spec == Init /\ [][Next]_vars

InitBuild == InitHeap /\ input \in BuildInputs

NextBuild ==
  \/ DoNewSchema
  \/ DoSchemaUnref
  \/ DoFinalize
  \/ DoBuildAttributes
  \/ DoBuildAttributesV
  \/ DoAttributesFromMap

SpecBuild == InitBuild /\ [][NextBuild]_vars

InitValidate == InitHeap /\ input \in ValidateInputs

NextValidate ==
  \/ DoNewSchema
  \/ DoNewAttributes
  \/ DoSet
  \/ DoValidateAttributesAgainstSchema

SpecValidate == InitValidate /\ [][NextValidate]_vars

\* Containers that are written, cloned and freed.
InitClone == InitHeap /\ input \in ContainerInputs

NextClone ==
  \/ DoNewAttributes
  \/ DoSet
  \/ DoDelete
  \/ DoFree
  \/ DoClone

SpecClone == InitClone /\ [][NextClone]_vars

InitEquals == InitHeap /\ input \in EqualsInputs

NextEquals ==
  \/ DoNewAttributes
  \/ DoSet
  \/ DoClone
  \/ DoEquals

SpecEquals == InitEquals /\ [][NextEquals]_vars

\* Containers that are released, by Free or by the finalizer, and used
\* afterwards.
InitRelease == InitHeap /\ input \in ReleaseInputs

NextRelease ==
  \/ DoNewAttributes
  \/ DoSet
  \/ DoDelete
  \/ DoFree
  \/ DoDrop
  \/ DoFinalize
  \/ DoClone
  \/ DoGet
  \/ DoHas
  \/ DoLen
  \/ DoIsEmpty
  \/ DoKeys
  \/ DoToMap
  \/ DoValidate

SpecRelease == InitRelease /\ [][NextRelease]_vars

InitNormalize == InitHeap /\ input \in NormalizeInputs

NextNormalize ==
  \/ DoNormalizeBooleanAttribute
  \/ DoNormalizeIntegerAttribute

SpecNormalize == InitNormalize /\ [][NextNormalize]_vars

InitValue == InitHeap /\ input \in ValueInputs

NextValue ==
  \/ DoNewValue
  \/ DoNewValueFromBytes
  \/ DoValueGet
  \/ DoGetText
  \/ DoGetContentType
  \/ DoValueLen
  \/ DoValueRef
  \/ DoValueUnref
  \/ DoToPassword
  \/ DoValueDrop
  \/ DoValueFinalize

SpecValue == InitValue /\ [][NextValue]_vars

InitSchema == InitHeap /\ input \in SchemaInputs

NextSchema ==
  \/ DoNewSchema
  \/ DoGetSchema
  \/ DoSchemaRef
  \/ DoSchemaUnref
  \/ DoSchemaName
  \/ DoSchemaFlags
  \/ DoSchemaAttributes
  \/ DoIsBorrowed
  \/ DoSchemaDrop
  \/ DoSchemaFinalize

SpecSchema == InitSchema /\ [][NextSchema]_vars

InitPasswordStore == InitHeap /\ input \in PasswordInputs

NextPasswordStore ==
  \/ DoNewAttributes
  \/ DoSet
  \/ DoFree
  \/ DoNewValue
  \/ DoValueUnref
  \/ DoPasswordStoreSync
  \/ DoPasswordStoreBinarySync

SpecPasswordStore == InitPasswordStore /\ [][NextPasswordStore]_vars

InitPasswordLookup == InitHeap /\ input \in PasswordInputs

NextPasswordLookup ==
  \/ DoNewAttributes
  \/ DoSet
  \/ DoFree
  \/ DoNewSchema
  \/ DoSchemaUnref
  \/ DoPasswordLookupSync
  \/ DoPasswordSearchSync

SpecPasswordLookup == InitPasswordLookup /\ [][NextPasswordLookup]_vars

InitPasswordMap == InitHeap /\ input \in PasswordMapInputs

NextPasswordMap ==
  \/ DoNewSchema
  \/ DoNewValue
  \/ DoLookupPassword
  \/ DoStorePassword
  \/ DoStoreBinarySecret
  \/ DoSearchPasswords

SpecPasswordMap == InitPasswordMap /\ [][NextPasswordMap]_vars

InitNewSchema == InitHeap /\ input \in NewSchemaInputs

SpecNewSchema == InitNewSchema /\ [][NextSchema]_vars

\* Containers made by every constructor, then written and cloned.
InitContainer == InitHeap /\ input \in AllConstructorsInputs

NextContainer ==
  \/ DoNewAttributes
  \/ DoAttributesFromMap
  \/ DoBuildAttributes
  \/ DoSet
  \/ DoDelete
  \/ DoClone
  \/ DoNewAttributeBuilder
  \/ DoWithString
  \/ DoWithInteger
  \/ DoWithBoolean
  \/ DoBuild

SpecContainer == InitContainer /\ [][NextContainer]_vars

InitBuilder == InitHeap /\ input \in BuilderInputs

NextBuilder ==
  \/ DoNewAttributeBuilder
  \/ DoWithString
  \/ DoWithInteger
  \/ DoWithBoolean
  \/ DoBuild
  \/ DoBuilderFree
  \/ DoFree

SpecBuilder == InitBuilder /\ [][NextBuilder]_vars

(***************************************************************************)
(* The strict encodings of the schema attribute types, as specified.        *)
(***************************************************************************)
StrictInteger(value) ==
  LET digits == IF Len(value) > 0 /\ value[1] = "-" THEN Tail(value) ELSE value
  IN  /\ Len(digits) >= 1
      /\ \A i \in 1..Len(digits) : IsDigit(digits[i])

StrictBoolean(value) == value = StrTrue \/ value = StrFalse

StrictConforms(value, attrType) ==
  CASE attrType = SchemaAttributeString -> TRUE
    [] attrType = SchemaAttributeInteger -> StrictInteger(value)
    [] attrType = SchemaAttributeBoolean -> StrictBoolean(value)
    [] OTHER -> FALSE

\* The last call validated a live container against a live schema.
ValidatedLive ==
  /\ call.op = "ValidateAttributesAgainstSchema"
  /\ call.s # 0
  /\ call.a # 0
  /\ schemas[call.s].cSchema # 0
  /\ objs[call.a].cAttributes # 0

ValidatedContent == tables[objs[call.a].cAttributes].content
ValidatedSchema == nschemas[schemas[call.s].cSchema].attributes

\* C1: for a live schema and a live container, validation returns no error
\* if and only if the container's keys are exactly the declared attribute
\* names and every value has the strict encoding of its declared type.
C1_ValidatesIffConforms ==
  ValidatedLive =>
    (call.err = "nil" <=>
       /\ DOMAIN ValidatedContent = DOMAIN ValidatedSchema
       /\ \A k \in DOMAIN ValidatedContent :
            StrictConforms(ValidatedContent[k], ValidatedSchema[k]))

\* C2: the per-value check that validation applies to a declared key's
\* value accepts the string if and only if it has the strict encoding of the
\* declared type.
C2_PerValueCheckIsStrict ==
  ValidatedLive =>
    \A k \in DOMAIN ValidatedContent \cap DOMAIN ValidatedSchema :
      validateAttributeValue(ValidatedContent[k], ValidatedSchema[k])
        <=> StrictConforms(ValidatedContent[k], ValidatedSchema[k])

\* The error of the first failing step in the order undeclared, missing,
\* invalid value.
FirstFailingStep(m, schemaAttrs) ==
  IF \E k \in DOMAIN m : k \notin DOMAIN schemaAttrs
    THEN "UndeclaredAttribute"
  ELSE IF \E k \in DOMAIN schemaAttrs : k \notin DOMAIN m
    THEN "MissingRequiredAttribute"
  ELSE IF \E k \in DOMAIN m : ~validateAttributeValue(m[k], schemaAttrs[k])
    THEN "InvalidAttributeValue"
  ELSE "nil"

\* C3: validation reports the error of the first failing step in the fixed
\* order undeclared attribute, missing attribute, invalid value, whatever
\* the order in which the keys are enumerated.
C3_ErrorOfFirstFailingStep ==
  ValidatedLive =>
    call.err = FirstFailingStep(ValidatedContent, ValidatedSchema)

(***************************************************************************)
(* The builders.                                                            *)
(***************************************************************************)
EmptyHeap == [tables |-> <<>>, objs |-> <<>>]

\* The handle the last call returned is a live container the caller holds.
RetLive ==
  /\ call.ret # 0
  /\ objs[call.ret].reachable
  /\ objs[call.ret].cAttributes # 0
  /\ tables[objs[call.ret].cAttributes].unrefs = 0

RetContent == tables[objs[call.ret].cAttributes].content

BuildWouldSucceed(args) == BuildAttributes(EmptyHeap, args).err = "nil"

\* The container BuildAttributes builds for args passes validation against s.
BuiltValidates(s, args) ==
  LET b == BuildAttributes(EmptyHeap, args)
  IN  \A order \in Orders(DOMAIN ToMap(b.heap, b.ret).m) :
        ValidateAttributesAgainstSchema(b.heap, SchemaHeap, s, b.ret, order)
          = "nil"

\* C4: BuildAttributesV returns a live container and no error exactly when
\* the schema is non-nil, BuildAttributes succeeds on the arguments and the
\* built container validates; otherwise it returns nil and an error.
C4_BuildAttributesVAllOrNothing ==
  call.op = "BuildAttributesV" =>
    IF /\ call.s # 0
       /\ BuildWouldSucceed(input.args)
       /\ BuiltValidates(call.s, input.args)
    THEN call.err = "nil" /\ RetLive
    ELSE call.ret = 0 /\ call.err # "nil"

C4_Witness ==
  /\ call.op = "BuildAttributesV"
  /\ call.s # 0
  /\ BuildWouldSucceed(input.args)
  /\ call.err = "UndeclaredAttribute"
  /\ call.ret = 0
  /\ \E t \in call.alloc : tables[t].unrefs = 1

IntegerTypes == SignedTypes \cup UnsignedTypes
PairValueTypes == {"string", "bool"} \cup IntegerTypes

KeyPositions(l) == {i \in 1..Len(l) : i % 2 = 1}

\* A list of pairs with non-empty string keys and string, integer or boolean
\* values.
ValidPairs(P) ==
  /\ Len(P) >= 2
  /\ Len(P) % 2 = 0
  /\ \A i \in KeyPositions(P) :
       /\ P[i].t = "string"
       /\ P[i].s # <<>>
       /\ P[i + 1].t \in PairValueTypes

\* The pair at i is the last one of the list with its key.
LastOfKey(P, i) ==
  \A j \in KeyPositions(P) : j > i => P[j].s # P[i].s

DigitValue(c) == CHOOSE d \in 0..9 : DigitChars[d + 1] = c

RECURSIVE ParseNat(_)
ParseNat(digits) ==
  IF Len(digits) = 0 THEN 0
  ELSE 10 * ParseNat(SubSeq(digits, 1, Len(digits) - 1))
         + DigitValue(digits[Len(digits)])

\* s is the canonical base-10 rendering of n.
IsCanonicalDecimal(s, n) ==
  /\ StrictInteger(s)
  /\ LET digits == IF s[1] = "-" THEN Tail(s) ELSE s
     IN  /\ (s[1] = "-") <=> (n < 0)
         /\ Len(digits) > 1 => digits[1] # "0"
         /\ ParseNat(digits) = IF n < 0 THEN 0 - n ELSE n

TypeOfValue(v) ==
  IF v.t \in IntegerTypes THEN SchemaAttributeInteger
  ELSE IF v.t = "bool" THEN SchemaAttributeBoolean
  ELSE SchemaAttributeString

\* The schema declares exactly the keys of P, each with the type of its value.
SchemaMatches(P, schemaAttrs) ==
  /\ DOMAIN schemaAttrs = {P[i].s : i \in KeyPositions(P)}
  /\ \A i \in KeyPositions(P) : schemaAttrs[P[i].s] = TypeOfValue(P[i + 1])

\* C5: BuildAttributes stores a native integer as its canonical base-10
\* rendering and a boolean as "true" or "false", both of which pass the
\* validation of an Integer (Boolean) attribute; so BuildAttributesV over a
\* live schema that declares exactly the supplied keys with the matching
\* types succeeds.
C5_CoercionPassesValidation ==
  /\ (call.op \in {"BuildAttributes", "BuildAttributesV"}
        /\ ValidPairs(input.args) /\ call.err = "nil") =>
       /\ RetLive
       /\ \A i \in KeyPositions(input.args) :
            LastOfKey(input.args, i) =>
              LET v == input.args[i + 1]
                  stored == RetContent[input.args[i].s]
              IN  /\ v.t \in IntegerTypes =>
                       /\ IsCanonicalDecimal(stored, v.n)
                       /\ validateAttributeValue(stored,
                                                 SchemaAttributeInteger)
                  /\ v.t = "bool" =>
                       /\ stored = (IF v.b THEN StrTrue ELSE StrFalse)
                       /\ validateAttributeValue(stored,
                                                 SchemaAttributeBoolean)
  /\ (call.op = "BuildAttributes" /\ ValidPairs(input.args)) =>
       call.err = "nil"
  /\ (call.op = "BuildAttributesV"
        /\ call.s # 0
        /\ schemas[call.s].cSchema # 0
        /\ ValidPairs(input.args)
        /\ SchemaMatches(input.args,
                         nschemas[schemas[call.s].cSchema].attributes)) =>
       call.err = "nil" /\ RetLive

C5_Witness ==
  /\ call.op = "BuildAttributesV"
  /\ input.args = ScenarioArgs
  /\ call.s # 0
  /\ schemas[call.s].cSchema # 0
  /\ call.err = "nil"
  /\ RetLive
  /\ RetContent = [k \in {KeyUsername, KeyPort, KeySsl} |->
                     IF k = KeyUsername THEN StrJohn
                     ELSE IF k = KeyPort THEN Str8080
                     ELSE StrTrue]

\* C6 as claimed: every non-empty argument list of odd length fails with the
\* odd-argument-count error and returns no container.
C6_OddLengthAlwaysFails ==
  (call.op = "BuildAttributes" /\ Len(input.args) % 2 = 1) =>
    call.err = "OddArgumentCount" /\ call.ret = 0

\* C6 as amended: every argument list of odd length whose last argument is
\* not the nil terminator fails with the odd-argument-count error, returns no
\* container and allocates none.
C6_OddLengthWithoutTerminatorFails ==
  (call.op = "BuildAttributes"
     /\ Len(input.args) % 2 = 1
     /\ ~IsNil(input.args[Len(input.args)])) =>
    call.err = "OddArgumentCount" /\ call.ret = 0 /\ call.alloc = {}

C6_Witness ==
  /\ call.op = "BuildAttributes"
  /\ Len(input.args) = 3
  /\ ~IsNil(input.args[3])
  /\ call.err = "OddArgumentCount"
  /\ call.ret = 0

\* The pairs of the effective list processed before a nil key ends the loop.
PairsOf(l) == 1..(Len(l) \div 2)
StopPair(l) ==
  IF \E p \in PairsOf(l) : IsNil(l[2 * p - 1])
  THEN CHOOSE p \in PairsOf(l) :
         /\ IsNil(l[2 * p - 1])
         /\ \A q \in PairsOf(l) : IsNil(l[2 * q - 1]) => p <= q
  ELSE (Len(l) \div 2) + 1

\* The error a pair raises when nil counts as an unsupported type in both
\* positions (the claim), and when nil is a value like any other (the code).
PairErrClaimed(k, v) ==
  IF k.t # "string" THEN "KeyTypeMismatch"
  ELSE IF v.t \notin PairValueTypes THEN "UnsupportedType"
  ELSE IF k.s = <<>> THEN "InvalidKey"
  ELSE "nil"

PairErrAmended(k, v) ==
  IF k.t # "string" THEN "KeyTypeMismatch"
  ELSE IF v.t \notin PairValueTypes \cup {"nil"} THEN "UnsupportedType"
  ELSE IF k.s = <<>> THEN "InvalidKey"
  ELSE "nil"

\* BuildAttributes went past the count checks and examined the pairs.
ExaminedPairs ==
  /\ call.op = "BuildAttributes"
  /\ Len(input.args) >= 1
  /\ input.args # <<GoNil>>
  /\ Len(EffectiveArgs(input.args)) % 2 = 0

\* C7 as claimed: the first pair with a non-string key (nil included) or a
\* value that is not a string, integer or boolean (nil included) makes the
\* call fail, with the key-type or the unsupported-type error.
C7_NilIsRejectedLikeAnyOtherType ==
  ExaminedPairs =>
    LET l == EffectiveArgs(input.args)
        bad == {p \in PairsOf(l) :
                  PairErrClaimed(l[2 * p - 1], l[2 * p]) # "nil"}
    IN  IF bad = {} THEN call.err = "nil"
        ELSE LET p == CHOOSE q \in bad : \A r \in bad : q <= r
             IN  call.err = PairErrClaimed(l[2 * p - 1], l[2 * p])

\* C7 as amended: pairs are examined in order up to the first nil in key
\* position, which ends the loop without an error; among them the first pair
\* with a non-string key or a value that is not a string, integer, boolean
\* or nil makes the call fail with the key-type or the unsupported-type
\* error; a nil value is stored as the empty string, and the pairs after a
\* nil key are not stored.
C7_FirstOffendingPairBeforeNilKey ==
  ExaminedPairs =>
    LET l == EffectiveArgs(input.args)
        seen == {p \in PairsOf(l) : p < StopPair(l)}
        bad == {p \in seen : PairErrAmended(l[2 * p - 1], l[2 * p]) # "nil"}
    IN  IF bad = {}
        THEN /\ call.err = "nil"
             /\ RetLive
             /\ DOMAIN RetContent = {l[2 * p - 1].s : p \in seen}
             /\ \A p \in seen :
                  (IsNil(l[2 * p])
                     /\ \A q \in seen : q > p => l[2 * q - 1] # l[2 * p - 1])
                    => RetContent[l[2 * p - 1].s] = <<>>
        ELSE LET p == CHOOSE q \in bad : \A r \in bad : q <= r
             IN  /\ call.err = PairErrAmended(l[2 * p - 1], l[2 * p])
                 /\ call.ret = 0

C7_Witness ==
  /\ ExaminedPairs
  /\ input.args = <<GoString(KeyA), GoNil, GoNil>>
  /\ call.err = "nil"
  /\ RetLive
  /\ RetContent = [k \in {KeyA} |-> <<>>]

\* The map a list of valid pairs denotes: the last value given for each key.
PairsMap(P) ==
  [k \in {P[i].s : i \in KeyPositions(P)} |->
     LET i == CHOOSE j \in KeyPositions(P) : P[j].s = k /\ LastOfKey(P, j)
     IN  ValueString(P[i + 1]).s]

\* C8: one trailing nil is stripped: a valid pair list followed by nil
\* builds the container the list alone builds, a second trailing nil is not
\* stripped, the lone terminator builds an empty live container, and a call
\* without arguments fails.
C8_OneTrailingTerminatorStripped ==
  call.op = "BuildAttributes" =>
    LET args == input.args
        n == Len(args)
    IN  /\ n = 0 => call.err = "EmptyInput" /\ call.ret = 0
        /\ args = <<GoNil>> =>
             call.err = "nil" /\ RetLive /\ RetContent = EmptyMap
        /\ ValidPairs(args) =>
             call.err = "nil" /\ RetLive /\ RetContent = PairsMap(args)
        /\ (n >= 3 /\ IsNil(args[n]) /\ ValidPairs(SubSeq(args, 1, n - 1))) =>
             /\ call.err = "nil"
             /\ RetLive
             /\ RetContent = PairsMap(SubSeq(args, 1, n - 1))
        /\ (n >= 4 /\ IsNil(args[n]) /\ IsNil(args[n - 1])
              /\ ValidPairs(SubSeq(args, 1, n - 2))) =>
             call.err # "nil" /\ call.ret = 0

C8_Witness ==
  /\ call.op = "BuildAttributes"
  /\ input.args = <<GoString(KeyA), GoString(StrV), GoNil>>
  /\ call.err = "nil"
  /\ RetLive
  /\ RetContent = [k \in {KeyA} |-> StrV]

Constructors == {"AttributesFromMap", "BuildAttributes", "BuildAttributesV"}

\* C9: a constructor call that ends in an error has released every native
\* table it allocated, once, and returns nil; one that succeeds allocated
\* exactly the live table of the container it returns; and no table is ever
\* released a second time, by a later call or by the finalizer.  (NewAttributes
\* allocates object a together with table a.)
C9_AllocatedTablesReleasedOnce ==
  /\ call.op \in Constructors =>
       IF call.err # "nil"
       THEN /\ call.ret = 0
            /\ \A t \in call.alloc : tables[t].unrefs = 1
       ELSE /\ RetLive
            /\ call.alloc = {objs[call.ret].cAttributes}
  /\ \A t \in 1..Len(tables) : tables[t].unrefs <= 1
  /\ \A a \in 1..Len(objs) :
       objs[a].finalized =>
         objs[a].cAttributes = 0 /\ tables[a].unrefs = 1

C9_Witness ==
  /\ \E a \in 1..Len(objs) : objs[a].finalized /\ tables[a].unrefs = 1
  /\ input.args = <<GoString(KeyA), GoFloat>>

LiveAttrs(a) ==
  /\ objs[a].cAttributes # 0
  /\ tables[objs[a].cAttributes].unrefs = 0

ContentOf(a) ==
  IF objs[a].cAttributes = 0 THEN EmptyMap
  ELSE tables[objs[a].cAttributes].content

ViewOf(a) == [live |-> LiveAttrs(a), content |-> ContentOf(a)]

\* C11: Clone of a live container succeeds and returns another live container
\* that Equals the original, in both directions; Clone of a released
\* container fails and returns nil; and a Set, Delete or Free applied to one
\* container changes neither the content nor the liveness of any other.
C11_CloneEqualAndIndependent ==
  /\ [](call.op = "Clone" =>
          IF call.aLive
          THEN /\ call.err = "nil"
               /\ RetLive
               /\ call.ret # call.a
               /\ LiveAttrs(call.a)
               /\ Equals(Heap, call.a, call.ret)
               /\ Equals(Heap, call.ret, call.a)
               /\ ContentOf(call.ret) = ContentOf(call.a)
          ELSE call.err # "nil" /\ call.ret = 0)
  /\ [][call'.op \in {"Set", "Delete", "Free"} =>
          \A y \in 1..Len(objs) : y # call'.a => ViewOf(y)' = ViewOf(y)]_vars

\* The clone was written after the Clone and the original kept its content.
C11_Witness ==
  /\ Len(objs) = 2
  /\ call.op = "Set"
  /\ call.a = 2
  /\ call.err = "nil"
  /\ LiveAttrs(1)
  /\ LiveAttrs(2)
  /\ ContentOf(1) = [k \in {KeyA} |-> StrV]
  /\ ContentOf(2) = [k \in {KeyA, KeyB} |-> IF k = KeyA THEN StrV ELSE StrW]

(***************************************************************************)
(* The normalization helpers.                                               *)
(***************************************************************************)
NormalizedValue == input.args[1]

\* C12: NormalizeBooleanAttribute maps the zero of every integer type to
\* "false" and every nonzero integer to "true", without an error, and a
\* native boolean to its literal.
C12_IntegerZeroIsFalse ==
  call.op = "NormalizeBooleanAttribute" =>
    /\ NormalizedValue.t \in SignedTypes \cup UnsignedTypes =>
         /\ call.err = "nil"
         /\ call.val.s = IF NormalizedValue.n = 0 THEN StrFalse ELSE StrTrue
    /\ NormalizedValue.t = "bool" =>
         /\ call.err = "nil"
         /\ call.val.s = IF NormalizedValue.b THEN StrTrue ELSE StrFalse

LowerOf(c) ==
  CASE c = "T" -> "t" [] c = "R" -> "r" [] c = "U" -> "u" [] c = "E" -> "e"
    [] c = "F" -> "f" [] c = "A" -> "a" [] c = "L" -> "l" [] c = "S" -> "s"
    [] c = "Y" -> "y" [] OTHER -> c

ToLower(word) == [i \in 1..Len(word) |-> LowerOf(word[i])]
ToUpper(word) == [i \in 1..Len(word) |-> UpperOf(word[i])]
ToTitle(word) ==
  [i \in 1..Len(word) |-> IF i = 1 THEN UpperOf(word[i]) ELSE word[i]]

\* What NormalizeBooleanAttribute returned: "true", "false" or "error".
BooleanOutcome ==
  IF call.err # "nil" THEN "error"
  ELSE IF call.val.s = StrTrue THEN "true"
  ELSE IF call.val.s = StrFalse THEN "false"
  ELSE "other"

\* C13 as stated: on a string, the result is "true" exactly for the spellings
\* of "true" in any mix of case and for "1", "false" exactly for the spellings
\* of "false" in any mix of case and for "0", and an error for any other
\* string.
C13_AnyMixOfCase ==
  (call.op = "NormalizeBooleanAttribute" /\ NormalizedValue.t = "string") =>
    LET v == NormalizedValue.s IN
    BooleanOutcome =
      IF ToLower(v) = StrTrue \/ v = <<"1">> THEN "true"
      ELSE IF ToLower(v) = StrFalse \/ v = <<"0">> THEN "false"
      ELSE "error"

\* The spellings the helper knows: lower case, upper case and capitalized.
KnownSpellings(word) == {word, ToUpper(word), ToTitle(word)}

\* C13 as amended: on a string, the result is "true" exactly for "true",
\* "TRUE", "True" and "1", "false" exactly for "false", "FALSE", "False" and
\* "0", and an error for any other string, other mixes of case included.
C13_ThreeSpellingsOnly ==
  (call.op = "NormalizeBooleanAttribute" /\ NormalizedValue.t = "string") =>
    LET v == NormalizedValue.s IN
    BooleanOutcome =
      IF v \in KnownSpellings(StrTrue) \cup {<<"1">>} THEN "true"
      ELSE IF v \in KnownSpellings(StrFalse) \cup {<<"0">>} THEN "false"
      ELSE "error"

\* "TRUE" was normalized to "true".
C13_Witness ==
  /\ call.op = "NormalizeBooleanAttribute"
  /\ NormalizedValue = GoString(StrTRUE)
  /\ call.err = "nil"
  /\ call.val.s = StrTrue

\* C14: on a string NormalizeIntegerAttribute succeeds exactly when the whole
\* string is a base-10 integer literal, and whatever it returns without an
\* error, from a string or from a native integer, has the strict Integer
\* encoding.
C14_WholeStringIsInteger ==
  call.op = "NormalizeIntegerAttribute" =>
    /\ NormalizedValue.t = "string" =>
         (call.err = "nil" <=> StrictInteger(NormalizedValue.s))
    /\ NormalizedValue.t \in SignedTypes \cup UnsignedTypes => call.err = "nil"
    /\ call.err = "nil" => StrictInteger(call.val.s)

(***************************************************************************)
(* The Value handle.  Handle v and native value v are allocated together.   *)
(***************************************************************************)
\* C15: a native value on which no extra reference was taken is released
\* once: whatever is done with its handle after the one Unref - an accessor,
\* another Unref, ToPassword, the finalizer - the released native value is
\* not used again and its count does not go below zero.
C15_ReleasedExactlyOnce ==
  \A n \in 1..Len(nvalues) :
    nvalues[n].taken = 0 => nvalues[n].refs >= 0 /\ ~nvalues[n].uaf

\* C19: ToPassword on a live Value returns the stored secret and leaves the
\* handle without a native value; on such a handle Get, GetText and
\* GetContentType return an error, Len returns 0, Ref returns nil, ToPassword
\* returns "", and no call, Unref and the finalizer included, touches a
\* native value.
C19_ToPasswordConsumes ==
  /\ [](call.op = "ToPassword" /\ call.vLive =>
          /\ call.val.s = nvalues[call.v].secret
          /\ valueObjs[call.v].cValue = 0)
  /\ [][\A v \in 1..Len(valueObjs) :
          (valueObjs[v].cValue = 0 /\ call'.v = v) =>
            /\ nvalues' = nvalues
            /\ valueObjs'[v].cValue = 0
            /\ call'.op \in {"Value.Get", "GetText", "GetContentType"} =>
                 call'.err # "nil"
            /\ call'.op = "Value.Len" => call'.val.n = 0
            /\ call'.op = "Value.Ref" => call'.ret = 0
            /\ call'.op = "ToPassword" => call'.val.s = <<>>]_vars

\* Unref was called on a handle that ToPassword had consumed: the native
\* value had been released by ToPassword and was not touched again.
C19_Witness ==
  /\ call.op = "Value.Unref"
  /\ valueObjs[call.v].reachable
  /\ valueObjs[call.v].cValue = 0
  /\ nvalues[call.v].secret = StrPw
  /\ nvalues[call.v].refs = 0
  /\ nvalues[call.v].freed
  /\ ~nvalues[call.v].uaf

(***************************************************************************)
(* Free and the released container.  Object a and table a are allocated     *)
(* together.                                                                *)
(***************************************************************************)
\* C16: the native table of a container is released once, by the first Free
\* or else by the finalizer, and never again; Free leaves the handle without
\* a table; and on such a handle Set, Clone and Validate return an error, Get
\* returns "", Has and Delete return false, Len returns 0, IsEmpty returns
\* true, Keys and ToMap return nil, and no call touches a native table.
C16_FreeIdempotentAndInvalidates ==
  /\ [](\A a \in 1..Len(objs) :
          /\ tables[a].unrefs <= 1
          /\ objs[a].cAttributes = 0 <=> tables[a].unrefs = 1
          /\ objs[a].finalized => objs[a].cAttributes = 0)
  /\ [](call.op = "Free" => objs[call.a].cAttributes = 0)
  /\ [][\A a \in 1..Len(objs) :
          (objs[a].cAttributes = 0 /\ call'.a = a) =>
            /\ tables' = tables
            /\ objs'[a].cAttributes = 0
            /\ call'.op \in {"Set", "Clone", "Validate"} => call'.err # "nil"
            /\ call'.op = "Clone" => call'.ret = 0
            /\ call'.op = "Get" => call'.val = GoString(<<>>)
            /\ call'.op \in {"Has", "Delete"} => call'.val = GoBool(FALSE)
            /\ call'.op = "Len" => call'.val = GoInt("int", 0)
            /\ call'.op = "IsEmpty" => call'.val = GoBool(TRUE)
            /\ call'.op \in {"Keys", "ToMap"} => call'.val = GoNil]_vars

\* Free was called a second time on a container that held an entry.
C16_Witness ==
  /\ call.op = "Free"
  /\ ~call.aLive
  /\ objs[call.a].reachable
  /\ tables[call.a].content = [k \in {KeyA} |-> StrV]
  /\ tables[call.a].unrefs = 1

(***************************************************************************)
(* The Schema handle: owned and borrowed.                                   *)
(***************************************************************************)
\* C17: Unref leaves an owned handle without a native schema; on such a
\* handle Name returns "", Flags returns SchemaFlagsNone, Attributes returns
\* nil, Ref returns nil, and no call, Unref and the finalizer included,
\* touches a native schema; and every decrement of a native count goes with
\* the reset of the pointer of the handle it was made through, which is never
\* set again: one handle, at most one native unref.
C17_OwnedUnrefInvalidates ==
  /\ [](call.op \in {"Schema.Unref", "Schema.free"} =>
          (~schemas[call.s].borrowed => schemas[call.s].cSchema = 0))
  /\ [][\A s \in 1..Len(schemas) :
          (~schemas[s].borrowed /\ schemas[s].cSchema = 0 /\ call'.s = s) =>
            /\ nschemas' = nschemas
            /\ schemas'[s].cSchema = 0
            /\ call'.op = "Schema.Name" => call'.val = GoString(<<>>)
            /\ call'.op = "Schema.Flags" =>
                 call'.val = GoInt("SchemaFlags", SchemaFlagsNone)
            /\ call'.op = "Schema.Attributes" => call'.val = GoNil
            /\ call'.op = "Schema.Ref" => call'.ret = 0]_vars
  /\ [][\A c \in 1..Len(nschemas) :
          nschemas'[c].refs < nschemas[c].refs =>
            /\ nschemas'[c].refs = nschemas[c].refs - 1
            /\ \E s \in 1..Len(schemas) :
                 /\ call'.s = s
                 /\ schemas[s].cSchema = c
                 /\ schemas'[s].cSchema = 0]_vars

\* The finalizer ran on a handle that Unref had released.
C17_Witness ==
  /\ call.op = "Schema.free"
  /\ ~call.sLive
  /\ schemas[call.s].finalized
  /\ ~schemas[call.s].borrowed
  /\ \E c \in 1..Len(nschemas) :
       /\ ~nschemas[c].static
       /\ nschemas[c].name = SchemaName
       /\ nschemas[c].refs = 0

\* C18: a handle obtained from GetSchema is borrowed, has no finalizer and
\* points to the static schema of the library, whose content and count never
\* change; Unref on it changes nothing, any number of times; and IsBorrowed,
\* Name, Flags and Attributes keep returning true and the predefined values.
C18_BorrowedUnrefIsNoOp ==
  /\ [](\A s \in 1..Len(schemas) :
          schemas[s].borrowed =>
            /\ ~schemas[s].finalizer
            /\ ~schemas[s].finalized
            /\ schemas[s].cSchema # 0
            /\ nschemas[schemas[s].cSchema] \in
                 {PredefinedSchema(SchemaTypeNote),
                  PredefinedSchema(SchemaTypeCompatNetwork)})
  /\ [](call.op = "GetSchema" /\ call.s # 0 => schemas[call.s].borrowed)
  /\ []((call.s # 0 /\ call.op # "NewSchema" /\ schemas[call.s].borrowed) =>
          LET native == nschemas[schemas[call.s].cSchema] IN
          /\ call.op = "IsBorrowed" => call.val = GoBool(TRUE)
          /\ call.op = "Schema.Name" =>
               call.val = GoString(native.name) /\ native.name # <<>>
          /\ call.op = "Schema.Flags" =>
               call.val = GoInt("SchemaFlags", native.flags)
          /\ call.op = "Schema.Attributes" =>
               call.val = GoInt("len", Cardinality(DOMAIN native.attributes)))
  /\ [][\A s \in 1..Len(schemas) :
          (schemas[s].borrowed /\ call'.s = s /\ call'.op = "Schema.Unref") =>
            nschemas' = nschemas /\ schemas' = schemas]_vars

\* Unref was called on the predefined network schema.
C18_Witness ==
  /\ call.op = "Schema.Unref"
  /\ call.sLive
  /\ schemas[call.s].borrowed
  /\ schemas[call.s].cSchema # 0
  /\ nschemas[schemas[call.s].cSchema].name = CompatNetworkName
  /\ nschemas[schemas[call.s].cSchema].refs = 0

(***************************************************************************)
(* The AttributeBuilder hands its container out once.                       *)
(***************************************************************************)
WithOps == {"WithString", "WithInteger", "WithBoolean"}

BuilderOps == WithOps \cup {"Build", "AttributeBuilder.Free"}

\* str is what an attribute holds for the Go value v.
Renders(v, str) ==
  IF v.t = "string" THEN str = v.s
  ELSE IF v.t = "bool" THEN str = (IF v.b THEN StrTrue ELSE StrFalse)
  ELSE IsCanonicalDecimal(str, v.n)

\* C20: a new builder holds a live, empty container; each With call on it
\* stores the rendering of its value under its key, replacing the value the
\* key had and leaving the other keys alone (a call with the empty key, which
\* Set rejects, adds nothing); the first Build returns that very container,
\* live and unchanged, with a nil error, and leaves the builder without a
\* container.  On a builder without a container (after Build or Free) no
\* builder call changes any table, container or builder, and Build returns a
\* nil container with a nil error.
C20_BuildHandsOutOnce ==
  /\ [](call.op = "NewAttributeBuilder" =>
          /\ builders[call.b].attrs # 0
          /\ LiveAttrs(builders[call.b].attrs)
          /\ ContentOf(builders[call.b].attrs) = EmptyMap)
  /\ [][\A b \in 1..Len(builders), a \in 0..Len(objs) :
          (call'.b = b /\ call'.op \in BuilderOps /\ builders[b].attrs = a) =>
            IF a = 0
            THEN /\ tables' = tables
                 /\ objs' = objs
                 /\ builders' = builders
                 /\ call'.op = "Build" => call'.ret = 0 /\ call'.err = "nil"
            ELSE /\ LiveAttrs(a)
                 /\ call'.op \in WithOps =>
                      LET key == call'.args[1].s
                      IN  /\ builders' = builders
                          /\ LiveAttrs(a)'
                          /\ key = <<>> => ContentOf(a)' = ContentOf(a)
                          /\ key # <<>> =>
                               /\ DOMAIN ContentOf(a)' =
                                    DOMAIN ContentOf(a) \cup {key}
                               /\ Renders(call'.args[2], ContentOf(a)'[key])
                               /\ \A k \in DOMAIN ContentOf(a) \ {key} :
                                    ContentOf(a)'[k] = ContentOf(a)[k]
                 /\ call'.op = "Build" =>
                      /\ call'.ret = a
                      /\ call'.err = "nil"
                      /\ builders'[b].attrs = 0
                      /\ ViewOf(a)' = ViewOf(a)]_vars

\* A With call was made on a built builder while the caller holds the
\* container, whose first key was written twice.
C20_Witness ==
  /\ call.op \in WithOps
  /\ builders[call.b].attrs = 0
  /\ call.args[1].s = KeyA
  /\ input.args[1] = GoString(KeyA)
  /\ input.args[5] = GoString(KeyA)
  /\ \E a \in HeldAttrs :
       /\ LiveAttrs(a)
       /\ ContentOf(a) = [k \in {KeyA, KeyB} |->
                            IF k = KeyA THEN StrTrue ELSE <<"8", "0", "8", "0">>]

(***************************************************************************)
(* The local checks of NewSchema.                                           *)
(***************************************************************************)
\* C21: NewSchema fails with the empty-name error whenever the name is empty,
\* whatever the map; otherwise with the empty-attribute-set error when the
\* map has no entry; otherwise with the too-many-attributes error when it has
\* more than 32 entries; with a name and 1 to 32 entries none of the three
\* errors is returned.  A failing call returns nil, allocates no native
\* schema and creates no handle, so no finalizer is registered.
C21_NewSchemaChecksInOrder ==
  /\ [](call.op = "NewSchema" =>
          LET n == Cardinality(DOMAIN input.sattrs)
          IN  /\ input.sname = <<>> => call.err = "EmptyName"
              /\ (input.sname # <<>> /\ n = 0) => call.err = "EmptyAttributeSet"
              /\ (input.sname # <<>> /\ n > 32) =>
                   call.err = "TooManyAttributes"
              /\ (input.sname # <<>> /\ n >= 1 /\ n <= 32) =>
                   call.err \notin {"EmptyName", "EmptyAttributeSet",
                                    "TooManyAttributes"}
              /\ call.err # "nil" => call.s = 0)
  /\ [][(call'.op = "NewSchema" /\ call'.err # "nil") =>
          /\ nschemas' = nschemas
          /\ schemas' = schemas]_vars

\* A schema of 32 attributes was created.
C21_Witness ==
  /\ call.op = "NewSchema"
  /\ call.err = "nil"
  /\ call.s # 0
  /\ Cardinality(DOMAIN input.sattrs) = 32
  /\ schemas[call.s].finalizer
  /\ nschemas[schemas[call.s].cSchema].attributes = input.sattrs

\* The empty name was rejected together with an oversized map.
C21_WitnessRejected ==
  /\ call.op = "NewSchema"
  /\ call.err = "EmptyName"
  /\ Cardinality(DOMAIN input.sattrs) = 33
  /\ schemas = <<>>

(***************************************************************************)
(* The password functions and the secret service.                           *)
(***************************************************************************)
StoreOps == {"PasswordStoreSync", "PasswordStoreBinarySync"}

C23_LookupOutcomes ==
  call.op = "PasswordLookupSync" =>
    /\ call.err # "nil" => call.val = GoString(<<>>)
    /\ IF ~call.aLive
       THEN call.err # "nil" /\ call.svc = NoService
       ELSE /\ Len(call.svc) = 1
            /\ call.svc[1].cAttributes = objs[call.a].cAttributes
            /\ call.svc[1].cSchema =
                 (IF call.s = 0 THEN 0 ELSE schemas[call.s].cSchema)
            /\ call.svc[1].answer.kind = "found" =>
                 /\ call.val = GoString(call.svc[1].answer.secret)
                 /\ call.err = "nil"
            /\ call.svc[1].answer.kind = "none" =>
                 /\ call.val = GoString(<<>>)
                 /\ call.err = "nil"
            /\ call.svc[1].answer.kind = "error" => call.err # "nil"

\* A secret was found with a nil schema.
C23_Witness ==
  /\ call.op = "PasswordLookupSync"
  /\ call.aLive
  /\ call.s = 0
  /\ call.err = "nil"
  /\ call.val = GoString(<<"p", "w">>)
  /\ ContentOf(call.a) = [k \in {KeyA} |-> StrV]

(***************************************************************************)
(* Equality of containers.                                                  *)
(***************************************************************************)
\* C24: for live containers a and b, a.Equals(b) is true exactly when both
\* hold the same keys with the same values; Equals is reflexive and
\* symmetric on live containers; a non-nil container never equals nil, and
\* nil equals nil.
C24_EqualsIsContentEquality ==
  /\ call.op = "Equals" =>
       /\ (/\ call.a # 0
           /\ call.other # 0
           /\ LiveAttrs(call.a)
           /\ LiveAttrs(call.other)) =>
              (call.val = GoBool(TRUE) <=>
                 /\ DOMAIN ContentOf(call.a) = DOMAIN ContentOf(call.other)
                 /\ \A k \in DOMAIN ContentOf(call.a) :
                      ContentOf(call.a)[k] = ContentOf(call.other)[k])
       /\ (call.a # 0 /\ call.other = 0) => call.val = GoBool(FALSE)
       /\ (call.a = 0 /\ call.other # 0) => call.val = GoBool(FALSE)
       /\ (call.a = 0 /\ call.other = 0) => call.val = GoBool(TRUE)
  /\ \A a, b \in 1..Len(objs) :
       (LiveAttrs(a) /\ LiveAttrs(b)) =>
         /\ Equals(Heap, a, a)
         /\ Equals(Heap, a, b) <=> Equals(Heap, b, a)

\* Two live containers, one holding an entry more than the other, were
\* compared.
C24_Witness ==
  /\ call.op = "Equals"
  /\ call.a # 0
  /\ call.other # 0
  /\ call.a # call.other
  /\ LiveAttrs(call.a)
  /\ LiveAttrs(call.other)
  /\ ContentOf(call.a) = [k \in {KeyA} |-> StrV]
  /\ ContentOf(call.other) = [k \in {KeyA, KeyB} |->
                                IF k = KeyA THEN StrV ELSE StrW]
  /\ call.val = GoBool(FALSE)

(***************************************************************************)
(* Ref and Unref of an owned Schema.                                        *)
(***************************************************************************)
\* C25: Ref and Unref of an owned schema are balanced: as long as every
\* handle is still held by the caller (none was left to the finalizer), a
\* native schema created by NewSchema whose count is positive is pointed to
\* by a handle, so that Name is non-empty and a further Unref can release it.
C25_RefUnrefBalanced ==
  (\A s \in 1..Len(schemas) : schemas[s].reachable /\ ~schemas[s].finalized)
  => \A c \in 1..Len(nschemas) :
       (/\ ~nschemas[c].static
        /\ nschemas[c].name = input.sname
        /\ nschemas[c].refs > 0)
       => \E s \in 1..Len(schemas) :
            /\ ~schemas[s].borrowed
            /\ schemas[s].cSchema = c
            /\ Name(SchemaHeap, s) # <<>>

(***************************************************************************)
(* The validators and a released schema.                                    *)
(***************************************************************************)
\* C26: given a non-nil Schema handle that Unref has released,
\* ValidateAttributesAgainstSchema and BuildAttributesV return an error, and
\* BuildAttributesV returns no container.
C26_ReleasedSchemaIsAnError ==
  (/\ call.op \in {"ValidateAttributesAgainstSchema", "BuildAttributesV"}
   /\ call.s # 0
   /\ ~call.sLive)
  => (call.err # "nil" /\ call.ret = 0)

C28_WitnessOverwrite ==
  /\ call.op = "Set"
  /\ call.aLive
  /\ call.err = "nil"
  /\ call.args = <<GoString(KeyA), GoString(StrW)>>
  /\ \E y \in 1..Len(objs) :
       /\ y # call.a
       /\ ContentOf(y) = [k \in {KeyA} |-> StrV]
       /\ ContentOf(call.a) = [k \in {KeyA} |-> StrW]

(***************************************************************************)
(* The invariants of a live container.                                      *)
(***************************************************************************)
\* The keys that a caller may ask for: those of the calls, and the empty one.
AskedKeys ==
  {<<>>, KeyA, KeyB} \cup {kv[1] : kv \in input.pairs} \cup DOMAIN input.values

C29_NormalizeBooleanIdempotent ==
  (call.op = "NormalizeBooleanAttribute" /\ call.err = "nil") =>
    /\ call.val.t = "string"
    /\ call.val.s \in {StrTrue, StrFalse}
    /\ validateAttributeValue(call.val.s, SchemaAttributeBoolean)
    /\ NormalizeBooleanAttribute(call.val) = [s |-> call.val.s, err |-> "nil"]

\* "False" was normalized to "false", which normalizes to itself.
C29_Witness ==
  /\ call.op = "NormalizeBooleanAttribute"
  /\ NormalizedValue = GoString(StrTitleFalse)
  /\ call.err = "nil"
  /\ call.val.s = StrFalse
  /\ NormalizeBooleanAttribute(call.val).s = StrFalse

(***************************************************************************)
(* The password functions that take a map.                                  *)
(***************************************************************************)
MapOps ==
  {"LookupPassword", "StorePassword", "StoreBinarySecret", "SearchPasswords"}

\* C30: LookupPassword, StorePassword, StoreBinarySecret and SearchPasswords
\* return an error and make no call to the secret service when the map is
\* nil or empty (a nil map has length 0) or holds an empty key; and on every
\* return, whatever the service answered, the container the call built from
\* the map has had exactly one g_hash_table_unref, points to no table any
\* more, and is not in the hands of the caller.
C30_MapFunctionsReleaseTheirContainer ==
  call.op \in MapOps =>
    /\ (DOMAIN input.values = {} \/ <<>> \in DOMAIN input.values) =>
         (call.err # "nil" /\ call.svc = NoService)
    /\ call.ret = 0
    /\ \A t \in call.alloc :
         /\ tables[t].unrefs = 1
         /\ objs[t].cAttributes = 0
         /\ ~objs[t].reachable
    /\ \A a \in 1..Len(objs) : objs[a].cAttributes \notin call.alloc

\* LookupPassword found a password: the service was called once with the
\* table of the temporary container, which is released on return.
C30_Witness ==
  /\ call.op = "LookupPassword"
  /\ call.err = "nil"
  /\ call.val = GoString(<<"p", "w">>)
  /\ Len(call.svc) = 1
  /\ call.svc[1].cAttributes \in call.alloc
  /\ tables[call.svc[1].cAttributes].unrefs = 1

\* A map with an empty key and another key: the container was built, then
\* released, and the service never called.
C30_WitnessEmptyKey ==
  /\ call.op = "StorePassword"
  /\ DOMAIN input.values = {<<>>, KeyA}
  /\ call.err # "nil"
  /\ call.svc = NoService
  /\ call.alloc # {}
  /\ \E t \in call.alloc : tables[t].content # EmptyMap

====
